---- MODULE Spec2Model ----
(***************************************************************************)
(* The API gateway of constructor-demo-server: the express pipeline of     *)
(* gateway/src/app.ts (rate limiter, conditional auth mounted under /api,  *)
(* proxy mounted under /api, 404 handler), the in-memory rate-limit store  *)
(* and its sweep timer, the retry loop of forwardRequest, the status       *)
(* endpoints of utils/healthCheck.ts, the service registry with its health *)
(* probes and its periodic timer, and the start-up and shutdown of         *)
(* server.ts.                                                              *)
(*                                                                         *)
(* A URL path is a sequence of chunks, each chunk a piece of the path that *)
(* starts with "/": "/api/orders" is <<"/api", "/orders">>.  The chunk "x" *)
(* is a piece that continues the segment before it: "/api/productsx" is    *)
(* <<"/api", "/products", "x">>.  startsWith is the prefix relation on     *)
(* these sequences.                                                        *)
(*                                                                         *)
(* Every middleware of the pipeline is synchronous up to the first         *)
(* outbound axios call, so one inbound request is handled by one action    *)
(* (Receive) up to that call; the completion of an outbound attempt and    *)
(* the end of a backoff delay are separate callbacks (separate actions).   *)
(***************************************************************************)
EXTENDS Integers, Sequences, FiniteSets, TLC

\* ------------------------------------------------------------------ bounds
\* GATEWAY_CONFIG.rateLimit.max and .windowMs, scaled down
RateMax == 2
WindowMs == 1000
\* the clock advances in steps of TickMs up to MaxTime
TickMs == 500
MaxTime == 1500
\* inbound requests over one run of the pipeline workload
MaxRequests == 1
\* largest ServiceConfig.retries explored
MaxRetries == 3
\* checkAllServicesHealth rounds over one run of the registry workload
MaxRounds == 2
\* calls of startHealthChecks over one run of the registry workload
MaxStarts == 2
\* services registered in the probe and registry workloads
MaxServices == 2
\* the grace period of shutdown (10000 ms), scaled down
GraceMs == 1000
\* limiters made with createRateLimiter over one run of the limiter workload
MaxLimiters == 2
\* calls of checkServiceHealth with a name the registry does not hold
MaxLookups == 2

\* ------------------------------------------------------------- vocabulary
None == "none"

Reqs == {"r1", "r2"}

\* inbound URLs (req.originalUrl)
Urls ==
  { <<"/api", "/orders">>,
    <<"/api", "/api", "/orders">>,
    <<"/api", "/api", "/products">>,
    <<"/x">> }

\* Authorization header values
AuthHeaders ==
  { None, "Basic", "Bearer ", "Bearer valid", "Bearer expired", "Bearer invalid" }

\* the identity inside the one valid token, and the identity a client may
\* write into its own x-user-id / x-user-email headers
TokenUser == "u2"
SpoofUser == "u1"
EmailOf(u) == IF u = "u1" THEN "u1@mail" ELSE "u2@mail"

ClientUserIds == { None, SpoofUser }
ForwardedFors == { None, "a2" }
RemoteAddress == "a1"

\* what one outbound attempt can end in: an upstream response, or a
\* connection-level error carrying a code
Statuses == { 200, 404, 500 }
ErrorCodes == { "ECONNREFUSED", "ETIMEDOUT", "ECONNABORTED", "EOTHER" }
UpstreamData == "upstream data"
\* response header names, in the lower case node keeps them under
HeaderNames ==
  { "x-ratelimit-limit", "x-ratelimit-remaining", "x-ratelimit-reset",
    "x-gateway-service", "x-request-id", "content-type", "connection" }
\* no header set
NoHeaders == [h \in HeaderNames |-> None]
\* the headers an upstream response can carry: a value of the upstream's, or
\* None for a header it does not carry
UpstreamHeaders == [HeaderNames -> { None, "upstream" }]
Outcomes ==
  [type : {"response"}, status : Statuses, code : {None}] \cup
  [type : {"error"}, status : {0}, code : ErrorCodes]

\* the paths the status router answers
StatusUrls ==
  { <<"/health">>, <<"/ready">>, <<"/live">>, <<"/status">>, <<"/services">> }

\* termination signals with a handler
Signals == { "SIGTERM", "SIGINT" }

Max(a, b) == IF a >= b THEN a ELSE b

\* Math.ceil(a / b), b > 0
Ceil(a, b) == IF a % b = 0 THEN a \div b ELSE (a \div b) + 1

\* String.prototype.startsWith on chunked paths
startsWith(path, prefix) ==
  /\ Len(prefix) <= Len(path)
  /\ SubSeq(path, 1, Len(prefix)) = prefix

\* --------------------------------------------------- config/services.ts
ROUTE_MAPPINGS ==
  << [prefix |-> <<"/api", "/auth">>, serviceName |-> "auth-service",
      stripPrefix |-> FALSE, authRequired |-> FALSE],
     [prefix |-> <<"/api", "/products">>, serviceName |-> "product-service",
      stripPrefix |-> FALSE, authRequired |-> FALSE],
     [prefix |-> <<"/api", "/orders">>, serviceName |-> "order-service",
      stripPrefix |-> FALSE, authRequired |-> TRUE],
     [prefix |-> <<"/api", "/recommendations">>,
      serviceName |-> "recommendation-service",
      stripPrefix |-> FALSE, authRequired |-> FALSE] >>

SERVICES ==
  { "auth-service", "product-service", "order-service",
    "recommendation-service" }

\* Array.from(this.services.keys()): the registry's services in the order
\* initializeServices inserted them
serviceNames ==
  << "auth-service", "product-service", "order-service",
     "recommendation-service" >>

\* the undefined result of ROUTE_MAPPINGS.find
NoMapping ==
  [prefix |-> <<>>, serviceName |-> None, stripPrefix |-> FALSE,
   authRequired |-> FALSE]

\* variant: a prefix matches only up to the end of a path segment
findMappingWholeSegments(path) ==
  LET hits == { i \in 1..Len(ROUTE_MAPPINGS) :
                  /\ startsWith(path, ROUTE_MAPPINGS[i].prefix)
                  /\ Len(path) > Len(ROUTE_MAPPINGS[i].prefix)
                       => path[Len(ROUTE_MAPPINGS[i].prefix) + 1] # "x" }
  IN IF hits = {} THEN NoMapping
     ELSE ROUTE_MAPPINGS[CHOOSE i \in hits : \A j \in hits : i <= j]

\* ROUTE_MAPPINGS.find(m => path.startsWith(m.prefix)): the first match
findMapping(path) ==
  LET hits == { i \in 1..Len(ROUTE_MAPPINGS) :
                  startsWith(path, ROUTE_MAPPINGS[i].prefix) }
  IN IF hits = {} THEN NoMapping
     ELSE ROUTE_MAPPINGS[CHOOSE i \in hits : \A j \in hits : i <= j]

\* --------------------------------------------------------------- state
VARIABLES
  now,             \* Date.now()
  rateLimitStore,  \* client key -> RateLimitEntry, NoEntry when absent
  reqs,            \* the requests being served, one record per connection
  nreq,            \* inbound requests received so far
  retries,         \* ServiceConfig.retries of the target services
  load,            \* the workload of this run: what the clients send
  crashed,         \* the process died of an unhandled rejection
  window,          \* per client key, the requests seen in its current window
  healthStatuses,  \* service name -> HealthStatus
  healthCheckInterval, \* the registry's timer handle, 0 when undefined
  intervals,       \* the setInterval timers ever made: TRUE while active
  rounds,          \* the checkAllServicesHealth calls, in the order started
  stopped,         \* stopHealthChecks has returned, and no start since
  lookups,         \* what checkServiceHealth returned for unregistered names
  server,          \* the process of server.ts
  limiters,        \* the middlewares createRateLimiter returned, in order
  stores           \* the Maps createRateLimiter made: id -> key -> entry

registryVars == << healthStatuses, healthCheckInterval, intervals, rounds, stopped >>

vars ==
  << now, rateLimitStore, reqs, nreq, retries, load, lookups, limiters,
     stores, crashed, window,
     healthStatuses, healthCheckInterval, intervals, rounds, stopped, server >>

NoEntry == [count |-> 0, resetTime |-> 0 - 1]

ClientKeys ==
  [kind : {"user"}, id : ClientUserIds \ {None}] \cup
  [kind : {"ip"}, id : (ForwardedFors \ {None}) \cup {RemoteAddress}]

NoWindow == [start |-> 0 - 1, n |-> 0, ok |-> 0]

NoOutcome == [type |-> None, status |-> 0, code |-> None]

\* a connection with no request on it
Idle ==
  [pc |-> "idle",
   url |-> <<>>, path |-> <<>>, authorization |-> None, xff |-> None,
   clientUserId |-> None,
   xUserId |-> None, xUserEmail |-> None, user |-> None,
   clientId |-> [kind |-> None, id |-> None], at |-> 0,
   rlCount |-> 0, rlRemaining |-> 0, rlReset |-> 0, retryAfter |-> 0,
   ordinal |-> 0, windowEnd |-> 0,
   stages |-> <<>>,
   service |-> None, attempt |-> 0, lastError |-> NoOutcome, delay |-> 0,
   delays |-> <<>>, targetPath |-> <<>>,
   thrown |-> NoOutcome,
   attemptsMade |-> 0, failures |-> 0, responses |-> 0,
   lastOutcome |-> NoOutcome,
   fwdUserId |-> None, fwdUserEmail |-> None,
   round |-> 0, total |-> 0, healthy |-> 0, unhealthy |-> 0, arrival |-> 0,
   authRule |-> None, routeRule |-> None, authNext |-> 0, limiter |-> 0,
   healthSeen |-> None, warned |-> FALSE,
   xRequestId |-> None, upstream |-> NoHeaders, headers |-> NoHeaders,
   status |-> 0, error |-> None, message |-> None, data |-> None]

\* an inbound request as express hands it to the first middleware: the
\* client's own x-user-id / x-user-email headers are in req.headers
NewRequest(url, auth, cuid, xff) ==
  [Idle EXCEPT !.pc = "handling", !.url = url, !.path = url,
               !.authorization = auth, !.xff = xff, !.clientUserId = cuid,
               !.xUserId = cuid,
               !.xUserEmail = IF cuid = None THEN None ELSE EmailOf(cuid)]

\* res.status(s).json({error, message}): the response is sent
Respond(rq, s, err, msg) ==
  [rq EXCEPT !.pc = "done", !.status = s, !.error = err, !.message = msg]

\* ------------------------------------------- middleware/rateLimiter.ts
getClientIdentifier(rq) ==
  IF rq.xUserId # None
  THEN [kind |-> "user", id |-> rq.xUserId]
  ELSE [kind |-> "ip",
        id |-> IF rq.xff # None THEN rq.xff ELSE RemoteAddress]

\* variant: the window already ends at resetTime
windowOverAtReset(entry, t) == t >= entry.resetTime

\* now > entry.resetTime
windowOver(entry, t) == t > entry.resetTime

\* variant: every request moves the end of the window
currentEntrySliding(store, clientId, t) ==
  IF store[clientId] = NoEntry \/ windowOver(store[clientId], t)
  THEN [count |-> 0, resetTime |-> t + WindowMs]
  ELSE [store[clientId] EXCEPT !.resetTime = t + WindowMs]

\* the entry the limiter works on: the stored one, or a fresh one
currentEntry(store, clientId, t) ==
  IF store[clientId] = NoEntry \/ windowOver(store[clientId], t)
  THEN [count |-> 0, resetTime |-> t + WindowMs]
  ELSE store[clientId]

\* entry.count > GATEWAY_CONFIG.rateLimit.max
limitExceeded(entry) == entry.count > RateMax

\* new Date(ms).toISOString(): the date and time down to the millisecond,
\* here the seconds since the epoch, a point, three digits of milliseconds
toISOString(ms) ==
  LET millis == ms % 1000
      pad == IF millis < 10 THEN "00" ELSE IF millis < 100 THEN "0" ELSE ""
  IN ToString(ms \div 1000) \o "." \o pad \o ToString(millis) \o "Z"

\* Math.max(0, max - entry.count)
remainingOf(max, count) == Max(0, max - count)

\* res.set({'X-RateLimit-Limit': ..., 'X-RateLimit-Remaining': ...,
\* 'X-RateLimit-Reset': ...})
rateLimitHeaders(headers, max, remaining, resetTime) ==
  [h \in HeaderNames |->
     CASE h = "x-ratelimit-limit" -> ToString(max)
       [] h = "x-ratelimit-remaining" -> ToString(remaining)
       [] h = "x-ratelimit-reset" -> toISOString(resetTime)
       [] OTHER -> headers[h]]

\* the limiter on one request: the store after it and the request after it
rateLimiter(rq, store, t) ==
  LET clientId == getClientIdentifier(rq)
      entry == [currentEntry(store, clientId, t) EXCEPT !.count = @ + 1]
      seen == [rq EXCEPT !.clientId = clientId, !.at = t,
                         !.rlCount = entry.count,
                         !.rlRemaining = remainingOf(RateMax, entry.count),
                         !.rlReset = entry.resetTime,
                         !.headers = rateLimitHeaders(@, RateMax,
                                       remainingOf(RateMax, entry.count),
                                       entry.resetTime),
                         !.stages = Append(@, "rateLimiter")]
  IN [store |-> [store EXCEPT ![clientId] = entry],
      req |-> IF limitExceeded(entry)
              THEN [Respond(seen, 429, "Too many requests", "rate limit")
                      EXCEPT !.retryAfter = Ceil(entry.resetTime - t, 1000)]
              ELSE seen]

\* new Map<string, RateLimitEntry>()
EmptyStore == [k \in ClientKeys |-> NoEntry]

\* variant: one module-level store behind every limiter that is made
createRateLimiterShared(windowMs, max, id) ==
  [windowMs |-> windowMs, max |-> max, store |-> 1]

\* createRateLimiter(windowMs, max): the middleware closes over its
\* arguments and over the Map made by this call, the one numbered id
createRateLimiter(windowMs, max, id) ==
  [windowMs |-> windowMs, max |-> max, store |-> id]

\* the entry a made limiter works on: the stored one, or a fresh one
createdEntry(store, clientId, t, windowMs) ==
  IF store[clientId] = NoEntry \/ t > store[clientId].resetTime
  THEN [count |-> 0, resetTime |-> t + windowMs]
  ELSE store[clientId]

\* the middleware createRateLimiter returned, on one request: its store
\* after it and the request after it; next() hands the request on to
\* whatever is mounted behind the limiter
createdLimiter(inst, rq, store, t) ==
  LET clientId == getClientIdentifier(rq)
      entry == [createdEntry(store, clientId, t, inst.windowMs)
                  EXCEPT !.count = @ + 1]
      seen == [rq EXCEPT !.clientId = clientId, !.at = t,
                         !.rlCount = entry.count,
                         !.rlRemaining = remainingOf(inst.max, entry.count),
                         !.rlReset = entry.resetTime,
                         !.headers = rateLimitHeaders(@, inst.max,
                                       remainingOf(inst.max, entry.count),
                                       entry.resetTime),
                         !.stages = Append(@, "createRateLimiter")]
  IN [store |-> [store EXCEPT ![clientId] = entry],
      req |-> IF entry.count > inst.max
              THEN [Respond(seen, 429, "Too many requests", "Rate limit exceeded")
                      EXCEPT !.retryAfter = Ceil(entry.resetTime - t, 1000)]
              ELSE [seen EXCEPT !.pc = "done"]]

\* variant: the sweep also deletes an entry whose window ends just now
sweepDeletesAtReset(entry, t) == entry # NoEntry /\ t >= entry.resetTime

\* the sweep timer's callback
sweepDeletes(entry, t) == entry # NoEntry /\ t > entry.resetTime

sweep(store, t) ==
  [k \in DOMAIN store |-> IF sweepDeletes(store[k], t) THEN NoEntry ELSE store[k]]

\* --------------------------------------------------- middleware/auth.ts
\* variant: an expired token is reported like any other invalid token
jwtVerifyOneError(token) ==
  CASE token = "valid" -> [ok |-> TRUE, id |-> TokenUser,
                           email |-> EmailOf(TokenUser), name |-> None]
    [] OTHER -> [ok |-> FALSE, id |-> None, email |-> None,
                 name |-> "JsonWebTokenError"]

\* jwt.verify(token, secret): the payload, or the name of the error thrown
jwtVerify(token) ==
  CASE token = "valid" -> [ok |-> TRUE, id |-> TokenUser,
                           email |-> EmailOf(TokenUser), name |-> None]
    [] token = "expired" -> [ok |-> FALSE, id |-> None, email |-> None,
                             name |-> "TokenExpiredError"]
    \* a well signed token whose nbf lies in the future
    [] token = "early" -> [ok |-> FALSE, id |-> None, email |-> None,
                           name |-> "NotBeforeError"]
    [] OTHER -> [ok |-> FALSE, id |-> None, email |-> None,
                 name |-> "JsonWebTokenError"]

isBearer(authHeader) ==
  authHeader \in { "Bearer ", "Bearer valid", "Bearer expired",
                   "Bearer invalid", "Bearer early" }

\* authHeader.substring(7)
bearerToken(authHeader) ==
  CASE authHeader = "Bearer valid" -> "valid"
    [] authHeader = "Bearer expired" -> "expired"
    [] authHeader = "Bearer invalid" -> "invalid"
    [] authHeader = "Bearer early" -> "early"
    [] OTHER -> ""

\* req.user = {...}; req.headers['x-user-id'] = ...; ['x-user-email'] = ...
attachUser(rq, decoded) ==
  [rq EXCEPT !.user = decoded.id, !.xUserId = decoded.id,
             !.xUserEmail = decoded.email]

\* next()
callNext(rq) == [rq EXCEPT !.authNext = @ + 1]

authenticateRequest(rq) ==
  LET authHeader == rq.authorization
      token == bearerToken(authHeader)
      decoded == jwtVerify(token)
  IN IF authHeader = None
       THEN Respond(rq, 401, "Unauthorized", "No authorization token provided")
     ELSE IF ~isBearer(authHeader)
       THEN Respond(rq, 401, "Unauthorized", "Invalid authorization format")
     ELSE IF token = ""
       THEN Respond(rq, 401, "Unauthorized", "No token provided")
     ELSE IF decoded.ok
       THEN callNext(attachUser(rq, decoded))
     ELSE IF decoded.name = "TokenExpiredError"
       THEN Respond(rq, 401, "Token expired", "Your session has expired")
     ELSE IF decoded.name = "JsonWebTokenError"
       THEN Respond(rq, 401, "Invalid token", "Authentication token is invalid")
     ELSE Respond(rq, 500, "Authentication error", "Could not authenticate")

\* variant: a bearer token that does not verify is answered 401
optionalAuthStrict(rq) ==
  LET authHeader == rq.authorization
      decoded == jwtVerify(bearerToken(authHeader))
  IN IF authHeader = None \/ ~isBearer(authHeader) THEN callNext(rq)
     ELSE IF decoded.ok THEN callNext(attachUser(rq, decoded))
     ELSE Respond(rq, 401, "Invalid token", "Authentication token is invalid")

optionalAuth(rq) ==
  LET authHeader == rq.authorization
      decoded == jwtVerify(bearerToken(authHeader))
  IN IF authHeader = None \/ ~isBearer(authHeader) THEN callNext(rq)
     ELSE IF decoded.ok THEN callNext(attachUser(rq, decoded))
     ELSE callNext(rq)

conditionalAuth(rq) ==
  LET mapping == findMapping(rq.path)
      staged == [rq EXCEPT !.stages = Append(@, "conditionalAuth"),
                           !.authRule = mapping.serviceName]
  IN IF mapping.authRequired THEN authenticateRequest(staged)
     ELSE optionalAuth(staged)

\* -------------------------------------------------- middleware/proxy.ts
\* variant: every service a rule names is taken to be registered
getServiceAlways(serviceName) == TRUE

\* serviceRegistry.getService(name) !== undefined: the registry holds the
\* services of the SERVICES list it was constructed from
getService(serviceName) ==
  /\ serviceName \in SERVICES
  /\ \E i \in DOMAIN load.services : load.services[i] = serviceName

\* serviceRegistry.isServiceHealthy(name): status?.status === 'healthy'
isServiceHealthy(serviceName) ==
  /\ serviceName \in DOMAIN healthStatuses
  /\ healthStatuses[serviceName].status = "healthy"

\* variant: a service that is not healthy is not called
blockUnhealthy(rq) ==
  Respond(rq, 503, "Service unavailable", "Service is unhealthy")

\* console.warn('... is unhealthy, attempting anyway...')
warnUnhealthy(rq) == [rq EXCEPT !.warned = TRUE]

\* variant: the axios default, which rejects a status outside 2xx
validateStatus2xx(status) == status >= 200 /\ status < 300

\* axios: validateStatus: () => true
validateStatus(status) == TRUE

\* variant: a status of 400 and above is thrown as a bare error that carries
\* no response
settleThrowsBare(o) ==
  IF o.type = "response" /\ o.status >= 400
  THEN [type |-> "error", status |-> 0, code |-> "ERR_BAD_RESPONSE"]
  ELSE o

\* what axios(config) gives forwardRequest for a backend outcome: the
\* response (returned), or an error (thrown); an error made from a refused
\* status carries that response's status
settle(o) ==
  IF o.type = "response" /\ ~validateStatus(o.status)
  THEN [type |-> "error", status |-> o.status, code |-> "ERR_BAD_RESPONSE"]
  ELSE o

\* variant: only the first error is kept
recordFirstError(lastError, error) ==
  IF lastError = NoOutcome THEN error ELSE lastError

\* lastError = error
recordError(lastError, error) == error

\* error.response && error.response.status >= 400 && < 500
isClientError(error) == error.status >= 400 /\ error.status < 500

\* attempt < retries: wait and go round the loop again
retryAgain(attempt, n) == attempt < n

\* variant: the first delay is 100 ms
backoffDelayFromZero(attempt) == (2 ^ (attempt - 1)) * 100

\* Math.pow(2, attempt) * 100
backoffDelay(attempt) == (2 ^ attempt) * 100

\* variant: an aborted call is not told apart from an unknown error
proxyErrorNoAbort(rq, error) ==
  LET caught == [rq EXCEPT !.thrown = error]
  IN IF error.code = "ECONNREFUSED"
       THEN Respond(caught, 503, "Service unavailable", "Could not connect")
     ELSE IF error.code = "ETIMEDOUT"
       THEN Respond(caught, 504, "Gateway timeout", "Service took too long")
     ELSE IF error.status # 0
       THEN [Respond(caught, error.status, None, None)
               EXCEPT !.data = UpstreamData]
     ELSE Respond(caught, 500, "Internal gateway error", "error.message")

\* the catch block of proxyRequest, given the error forwardRequest threw
proxyError(rq, error) ==
  LET caught == [rq EXCEPT !.thrown = error]
  IN IF error.code = "ECONNREFUSED"
       THEN Respond(caught, 503, "Service unavailable", "Could not connect")
     ELSE IF error.code \in {"ETIMEDOUT", "ECONNABORTED"}
       THEN Respond(caught, 504, "Gateway timeout", "Service took too long")
     ELSE IF error.status # 0
       THEN [Respond(caught, error.status, None, None)
               EXCEPT !.data = UpstreamData]
     ELSE Respond(caught, 500, "Internal gateway error", "error.message")

\* generateRequestId(): req_<Date.now()>_<random>, an id no client sent
generateRequestId == "req_generated"

\* the hop-by-hop headers that are not copied
excludeHeaders == { "connection", "keep-alive", "transfer-encoding", "upgrade" }

\* res.set({'X-Gateway-Service': ..., 'X-Request-ID': ...})
gatewayHeaders(rq) ==
  [h \in HeaderNames |->
     CASE h = "x-gateway-service" -> rq.service
       [] h = "x-request-id" -> IF rq.xRequestId # None THEN rq.xRequestId
                                ELSE generateRequestId
       [] OTHER -> rq.headers[h]]

\* res.set(key, value) for every header of the upstream response that is
\* not hop-by-hop: a header that is already set is replaced
copyHeaders(headers, upstream) ==
  [h \in HeaderNames |->
     IF upstream[h] # None /\ h \notin excludeHeaders THEN upstream[h]
     ELSE headers[h]]

\* the gateway's headers, then the upstream's, then
\* res.status(response.status).send(response.data); rq.upstream holds
\* response.headers
relay(rq, response) ==
  [Respond(rq, response.status, None, None)
     EXCEPT !.data = UpstreamData,
            !.headers = copyHeaders(gatewayHeaders(rq), rq.upstream)]

\* mapping.stripPrefix: false in every rule of the shipped ROUTE_MAPPINGS;
\* the strip workload configures it true for the prefixes in load.stripped
stripPrefix(mapping) == mapping.stripPrefix \/ mapping.prefix \in load.stripped

\* the chunk "x" stands for characters other than '/'; every other chunk
\* begins with '/'
startsWithSlash(path) == path # <<>> /\ path[1] # "x"

\* the places where pattern occurs in path
occurrences(path, pattern) ==
  { i \in 1..(Len(path) - Len(pattern) + 1) :
      SubSeq(path, i, i + Len(pattern) - 1) = pattern }

\* path without the occurrence of pattern at place i
without(path, pattern, i) ==
  SubSeq(path, 1, i - 1) \o SubSeq(path, i + Len(pattern), Len(path))

\* variant: every occurrence of the pattern is removed
RECURSIVE replaceAll(_, _)
replaceAll(path, pattern) ==
  LET hits == occurrences(path, pattern)
  IN IF hits = {} THEN path
     ELSE replaceAll(without(path, pattern,
                             CHOOSE i \in hits : \A j \in hits : i <= j),
                     pattern)

\* path.replace(pattern, ''): the first occurrence of a string pattern is
\* removed
replace(path, pattern) ==
  LET hits == occurrences(path, pattern)
  IN IF hits = {} THEN path
     ELSE without(path, pattern, CHOOSE i \in hits : \A j \in hits : i <= j)

\* the path the backend is called with
targetPath(path, mapping) ==
  IF stripPrefix(mapping)
  THEN LET stripped == replace(path, mapping.prefix)
       IN IF ~startsWithSlash(stripped) THEN << "/" >> \o stripped
          ELSE stripped
  ELSE path

\* proxyRequest up to the first outbound call of forwardRequest
proxyRequest(rq, n) ==
  LET mapping == findMapping(rq.path)
      staged == [rq EXCEPT !.stages = Append(@, "proxyRequest"),
                           !.routeRule = mapping.serviceName]
      seen == [staged EXCEPT !.healthSeen =
                 IF mapping.serviceName \in DOMAIN healthStatuses
                 THEN healthStatuses[mapping.serviceName].status ELSE None]
      checked == IF isServiceHealthy(mapping.serviceName) THEN seen
                 ELSE warnUnhealthy(seen)
  IN IF mapping = NoMapping
       THEN Respond(staged, 404, "Route not found", "No service configured")
     ELSE IF ~getService(mapping.serviceName)
       THEN Respond(staged, 503, "Service unavailable", "not found in registry")
     ELSE IF checked.pc = "done" THEN checked
     ELSE IF ~(1 <= n)
       \* the loop body never runs: throw null, and the catch block reads
       \* error.message of null
       THEN [checked EXCEPT !.pc = "unhandled", !.service = mapping.serviceName]
     ELSE [checked EXCEPT !.pc = "attempt", !.service = mapping.serviceName,
                          !.targetPath = targetPath(rq.path, mapping),
                          !.attempt = 1, !.attemptsMade = 1,
                          !.fwdUserId = rq.xUserId,
                          !.fwdUserEmail = rq.xUserEmail]

\* variant: a forward that ended in an error marks its service unhealthy
registryMarksFailure(statuses, rq) ==
  IF rq.pc = "done" /\ rq.thrown # NoOutcome /\ rq.service \in DOMAIN statuses
  THEN [statuses EXCEPT ![rq.service].status = "unhealthy",
                        ![rq.service].error = rq.thrown.code]
  ELSE statuses

\* the health map after forwardRequest and the catch block of proxyRequest:
\* neither calls the registry, whatever the outcome
registryAfterForward(statuses, rq) == statuses

\* forwardRequest and proxyRequest from the completion of one axios call
attemptDone(rq, o, n) ==
  LET result == settle(o)
      counted == [rq EXCEPT !.lastOutcome = o,
                            !.failures = @ + (IF o.type = "error" THEN 1 ELSE 0),
                            !.responses = @ + (IF o.type = "response" THEN 1 ELSE 0)]
      error == recordError(rq.lastError, result)
      failed == [counted EXCEPT !.lastError = error]
  IN IF result.type = "response" THEN relay(counted, result)
     ELSE IF isClientError(result) THEN proxyError(failed, result)
     ELSE IF retryAgain(rq.attempt, n)
       THEN [failed EXCEPT !.pc = "backoff", !.delay = backoffDelay(rq.attempt),
                           !.delays = Append(@, backoffDelay(rq.attempt))]
     ELSE proxyError(failed, error)

\* the backoff timer fired: the next round of the loop issues its call
nextAttempt(rq) ==
  [rq EXCEPT !.pc = "attempt", !.attempt = @ + 1, !.attemptsMade = @ + 1,
             !.delay = 0]

\* ------------------------------------------------------------- app.ts
\* app.use('/api', ...): the mount point matches, and req.path inside it
mounted(url) == Len(url) >= 1 /\ Head(url) = "/api"

mountPath(url) == IF Tail(url) = <<>> THEN <<"/">> ELSE Tail(url)

\* variant: the chain goes on after the rate limiter has answered 429
appAfterReject(rq, n) ==
  IF rq.url = <<"/">>
    THEN Respond(rq, 200, None, "Welcome to the API Gateway")
  ELSE IF mounted(rq.url)
    THEN LET checked == conditionalAuth([rq EXCEPT !.path = mountPath(rq.url)])
         IN IF checked.authNext = 0 THEN checked
            ELSE proxyRequest(checked, n)
  ELSE Respond(rq, 404, "Not Found", "Route not found")

\* the middleware chain after the rate limiter
app(rq, n) ==
  IF rq.pc = "done" THEN rq
  ELSE IF rq.url = <<"/">>
    THEN Respond(rq, 200, None, "Welcome to the API Gateway")
  ELSE IF mounted(rq.url)
    THEN LET checked == conditionalAuth([rq EXCEPT !.path = mountPath(rq.url)])
         IN IF checked.pc = "done" \/ checked.authNext = 0 THEN checked
            ELSE proxyRequest(checked, n)
  ELSE Respond(rq, 404, "Not Found", "Route not found")

\* ----------------------------------------- services/serviceRegistry.ts
\* initializeServices: every registered service starts 'unknown'; round is
\* the checkAllServicesHealth call whose probe wrote the record, 0 for none
initializeServices(services) ==
  [s \in { services[i] : i \in DOMAIN services } |->
     [status |-> "unknown", lastCheck |-> 0, round |-> 0, error |-> None]]

\* a slot of Promise.all's result that no promise has filled yet
Pending ==
  [service |-> None, status |-> "pending", error |-> None, rejected |-> FALSE]

\* variant: any status below 500 counts as healthy
probeValidateStatusLax(status) == status < 500

\* validateStatus: (status) => status === 200
probeValidateStatus(status) == status = 200

\* checkServiceHealth from the completion of its axios.get: the record it
\* stores and resolves with; the catch block turns every failure into a
\* record, so the promise never rejects
\* error.message of what axios.get throws: a refused status, or the code of
\* a connection failure or timeout
probeMessage(o) ==
  IF o.type = "response" THEN "Request failed with status code" ELSE o.code

\* variant: a connection failure or timeout is thrown on to the caller
checkServiceHealthThrows(serviceName, o) ==
  IF o.type = "response" /\ probeValidateStatus(o.status)
  THEN [service |-> serviceName, status |-> "healthy", error |-> None,
        rejected |-> FALSE]
  ELSE [service |-> serviceName, status |-> "unhealthy",
        error |-> probeMessage(o), rejected |-> o.type = "error"]

checkServiceHealth(serviceName, o) ==
  IF o.type = "response" /\ probeValidateStatus(o.status)
  THEN [service |-> serviceName, status |-> "healthy", error |-> None,
        rejected |-> FALSE]
  ELSE [service |-> serviceName, status |-> "unhealthy",
        error |-> probeMessage(o), rejected |-> FALSE]

\* variant: the record made for an unregistered name is stored like the
\* others
checkUnregisteredStored(statuses, serviceName) ==
  LET record == [service |-> serviceName, status |-> "unknown",
                 error |-> "Service not found in registry", rejected |-> FALSE]
  IN [record |-> record,
      statuses |-> [s \in DOMAIN statuses \cup {serviceName} |->
                      IF s = serviceName
                      THEN [status |-> "unknown", lastCheck |-> 0, round |-> 0,
                            error |-> record.error]
                      ELSE statuses[s]]]

\* checkServiceHealth when this.services.get(serviceName) is undefined: the
\* record it returns, before any await, and the health map after it
checkUnregistered(statuses, serviceName) ==
  [record |-> [service |-> serviceName, status |-> "unknown",
               error |-> "Service not found in registry", rejected |-> FALSE],
   statuses |-> statuses]

\* this.healthStatuses.set(serviceName, healthStatus)
setHealthStatus(statuses, record, t, i) ==
  [statuses EXCEPT ![record.service] =
     [status |-> record.status, lastCheck |-> t, round |-> i,
      error |-> record.error]]

\* checkAllServicesHealth: one probe per registered service is started, and
\* Promise.all waits for them
newRound(owner, timer, late) ==
  [owner |-> owner, timer |-> timer, late |-> late,
   probing |-> 1..Len(load.services),
   values |-> [i \in 1..Len(load.services) |-> Pending],
   remaining |-> Len(load.services),
   state |-> "pending",
   backends |-> [i \in 1..Len(load.services) |-> None]]

\* Promise.all: values[index] = value
joinAt(values, index, value) == [values EXCEPT ![index] = value]

\* variant: Promise.race, the first probe to complete settles the call
joinedAtFirst(remaining) == remaining < Len(load.services)

\* Promise.all: resolved once no promise remains
joined(remaining) == remaining = 0

\* the call rd from the completion of its probe of service number k with
\* backend outcome o; backends notes what each backend did, an answer of
\* 200 ("up") or anything else ("down")
probeDone(rd, k, o) ==
  LET record == checkServiceHealth(load.services[k], o)
      seen == [rd EXCEPT !.probing = @ \ {k},
                         !.backends[k] =
                            IF o.type = "response" /\ o.status = 200
                            THEN "up" ELSE "down"]
  IN IF rd.state # "pending" THEN seen
     ELSE IF record.rejected THEN [seen EXCEPT !.state = "rejected"]
     ELSE LET filled == [seen EXCEPT !.values = joinAt(@, k, record),
                                     !.remaining = @ - 1]
          IN IF joined(filled.remaining)
             THEN [filled EXCEPT !.state = "resolved"]
             ELSE filled

\* healthStatuses.filter(s => s.status === st).length
countStatus(values, st) ==
  Cardinality({ i \in DOMAIN values : values[i].status = st })

\* ------------------------------------------------- utils/healthCheck.ts
\* variant: only /health is mounted ahead of the rate limiter
statusRouteHealthOnly(url) == url = <<"/health">>

\* the router matches the request
statusRoute(url) == url \in StatusUrls

\* variant: ready only when every service is healthy
isReadyAll(healthy) == healthy = Len(load.services)

\* const isReady = healthy > 0
isReady(healthy) == healthy > 0

\* GET /ready and GET /status after their await
healthReport(rq, rd) ==
  LET healthy == countStatus(rd.values, "healthy")
      counted == [rq EXCEPT !.total = Len(rd.values), !.healthy = healthy,
                            !.unhealthy = countStatus(rd.values, "unhealthy")]
  IN IF rd.state = "rejected"
       THEN IF rq.url = <<"/ready">>
            THEN Respond(rq, 503, "error.message", "not ready")
            ELSE Respond(rq, 500, "Failed to get status", "error.message")
     ELSE IF rq.url = <<"/ready">>
       THEN IF isReady(healthy) THEN Respond(counted, 200, None, "ready")
            ELSE Respond(counted, 503, None, "not ready")
     ELSE Respond(counted, 200, None, "running")

\* the status router on a request it matches, up to its first await; upTo
\* is the number of checkAllServicesHealth calls so far, heapOk whether
\* heap use is under 90 percent
healthCheckRouter(rq, upTo, heapOk) ==
  LET staged == [rq EXCEPT !.stages = Append(@, "healthCheckRouter")]
  IN IF rq.url = <<"/health">> THEN Respond(staged, 200, None, "healthy")
     ELSE IF rq.url = <<"/live">>
       THEN IF heapOk THEN Respond(staged, 200, None, "alive")
            ELSE Respond(staged, 503, None, "unhealthy")
     ELSE IF rq.url = <<"/services">>
       THEN [Respond(staged, 200, None, "services")
               EXCEPT !.total = Len(load.services)]
     ELSE [staged EXCEPT !.pc = "probing", !.round = upTo + 1]

\* ------------------------------------------------------------ server.ts
\* the process before startServer runs ("new"), or the app of app.ts
\* driven without server.ts ("app")
newServer(boot) ==
  [phase |-> IF boot = "server" THEN "new" ELSE "app",
   exitCode |-> 0 - 1, cause |-> None, steps |-> <<>>, signals |-> 0,
   signalAt |-> 0 - 1, graceAt |-> 0 - 1]

\* process.exit(code) at the place named by cause
exit(srv, code, cause) ==
  [srv EXCEPT !.phase = "exited", !.exitCode = code, !.cause = cause]

\* the number of a signal
signalNumber(sig) == IF sig = "SIGTERM" THEN 15 ELSE 2

\* a signal with no handler registered ends the process
killed(srv, sig) ==
  [exit(srv, 128 + signalNumber(sig), "signal") EXCEPT !.signals = @ + 1]

\* the calls of shutdown, in the order it makes them
shutdownSteps == << "stopHealthChecks", "server.close", "setTimeout" >>

\* shutdown(signal) on the process record: the listener stops accepting and
\* the force timer is set; the first such timer is the first to fire
shutdown(srv, t) ==
  [srv EXCEPT !.phase = "closing", !.signals = @ + 1,
              !.steps = IF srv.phase = "closing" THEN @ ELSE @ \o shutdownSteps,
              !.signalAt = IF srv.phase = "closing" THEN @ ELSE t,
              !.graceAt = IF srv.phase = "closing" THEN @ ELSE t + GraceMs]

\* variant: the close callback reports a failure
closedExitsOne(srv) == exit(srv, 1, "closed")

\* the callback of server.close: process.exit(0)
closed(srv) == exit(srv, 0, "closed")

\* variant: the force timer is set with no delay
graceOverAtOnce(srv, t) == TRUE

\* the force timer of shutdown is due
graceOver(srv, t) == t >= srv.graceAt

\* the callback of the force timer: process.exit(1)
forceClose(srv) == exit(srv, 1, "forced")

\* requests are taken: the listener is open, or the app is driven directly
accepting == server.phase \in { "app", "listening" }

\* the process runs
alive == ~crashed /\ server.phase # "exited"

\* a connection with a request still being served
inFlight(rq) == rq.pc \notin { "idle", "done" }

\* the claim-side bookkeeping of fixed windows: per client key, the start
\* of the window in progress, the requests seen in it and those let through
countInWindow(w, t, allowed) ==
  LET base == IF w = NoWindow \/ t > w.start + WindowMs
              THEN [start |-> t, n |-> 0, ok |-> 0] ELSE w
  IN [base EXCEPT !.n = @ + 1, !.ok = @ + (IF allowed THEN 1 ELSE 0)]

\* --------------------------------------------------------------- actions
\* requests of every shape, against a backend that answers 200 or refuses
\* the connection
PipelineLoad ==
  [requests |-> MaxRequests, urls |-> Urls, auths |-> AuthHeaders,
   userIds |-> ClientUserIds, forwardedFors |-> ForwardedFors,
   outcomes |-> { o \in Outcomes : o.status = 200 \/ o.code = "ECONNREFUSED" },
   retries |-> { 2 }, ticks |-> TickMs,
   boot |-> "app", rounds |-> 0, starts |-> 0, signals |-> 0,
   services |-> serviceNames,
   probeOutcomes |-> {}, heaps |-> {}, listens |-> {},
   limiters |-> 0, limiterParams |-> {},
   requestIds |-> { None }, upstreamHeaders |-> { NoHeaders },
   stripped |-> {}]

\* requests of one forwarded shape, against every backend behaviour and
\* every retry count
ForwardLoad ==
  [requests |-> MaxRequests,
   urls |-> { <<"/api", "/api", "/products">> }, auths |-> { None },
   userIds |-> { None }, forwardedFors |-> { None },
   outcomes |-> Outcomes, retries |-> 0..MaxRetries, ticks |-> TickMs,
   boot |-> "app", rounds |-> 0, starts |-> 0, signals |-> 0,
   services |-> serviceNames,
   probeOutcomes |-> {}, heaps |-> {}, listens |-> {},
   limiters |-> 0, limiterParams |-> {},
   requestIds |-> { None }, upstreamHeaders |-> { NoHeaders },
   stripped |-> {}]

\* enough requests of few shapes to fill a window and outlive it
LimiterLoad ==
  [requests |-> RateMax + 2,
   urls |-> { <<"/api", "/api", "/products">> }, auths |-> { None },
   userIds |-> ClientUserIds, forwardedFors |-> { None },
   outcomes |-> { o \in Outcomes : o.status = 200 \/ o.code = "ECONNREFUSED" },
   retries |-> { 2 }, ticks |-> MaxTime,
   boot |-> "app", rounds |-> 0, starts |-> 0, signals |-> 0,
   services |-> serviceNames,
   probeOutcomes |-> {}, heaps |-> {}, listens |-> {},
   limiters |-> 0, limiterParams |-> {},
   requestIds |-> { None }, upstreamHeaders |-> { NoHeaders },
   stripped |-> {}]

\* one client against the global limiter and the limiters made with
\* createRateLimiter, over more than a window
LimitersLoad ==
  [requests |-> 3,
   urls |-> { <<"/x">> }, auths |-> { None },
   userIds |-> { None }, forwardedFors |-> { None },
   outcomes |-> {}, retries |-> { 2 }, ticks |-> MaxTime,
   boot |-> "app", rounds |-> 0, starts |-> 0, signals |-> 0,
   services |-> serviceNames,
   probeOutcomes |-> {}, heaps |-> {}, listens |-> {},
   limiters |-> MaxLimiters,
   limiterParams |-> { [windowMs |-> TickMs, max |-> 1],
                       [windowMs |-> WindowMs, max |-> RateMax] },
   requestIds |-> { None }, upstreamHeaders |-> { NoHeaders },
   stripped |-> {}]

\* one forwarded request, with and without an x-request-id of the client's,
\* answered by a backend whose response carries any of the header names
HeaderLoad ==
  [requests |-> 1,
   urls |-> { <<"/api", "/api", "/products">> },
   auths |-> { None },
   userIds |-> { None }, forwardedFors |-> { None },
   outcomes |-> { o \in Outcomes : o.status = 200 \/ o.code = "ECONNREFUSED" },
   retries |-> { 2 }, ticks |-> TickMs,
   boot |-> "app", rounds |-> 0, starts |-> 0, signals |-> 0,
   services |-> serviceNames,
   probeOutcomes |-> {}, heaps |-> {}, listens |-> {},
   limiters |-> 0, limiterParams |-> {},
   requestIds |-> { None, "client-id" }, upstreamHeaders |-> UpstreamHeaders,
   stripped |-> {}]

\* paths at, below and beside a prefix and with the prefix in them twice,
\* for rules that keep the prefix and rules that strip it
StripLoad ==
  [requests |-> 2,
   urls |-> { <<"/api", "/api", "/products">>,
              <<"/api", "/api", "/products", "/1">>,
              <<"/api", "/api", "/products", "x">>,
              <<"/api", "/api", "/products", "/api", "/products">>,
              <<"/api", "/api", "/orders", "/1">> },
   auths |-> { "Bearer valid" },
   userIds |-> { None }, forwardedFors |-> { None },
   outcomes |-> { o \in Outcomes : o.status = 200 \/ o.code = "ECONNREFUSED" },
   retries |-> { 2 }, ticks |-> TickMs,
   boot |-> "app", rounds |-> 0, starts |-> 0, signals |-> 0,
   services |-> serviceNames,
   probeOutcomes |-> {}, heaps |-> {}, listens |-> {},
   limiters |-> 0, limiterParams |-> {},
   requestIds |-> { None }, upstreamHeaders |-> { NoHeaders },
   stripped |-> {}]

\* paths at, below, beside and outside the route prefixes, twice over
RouteLoad ==
  [requests |-> 2,
   urls |-> { <<"/api", "/api", "/products", "/1">>,
              <<"/api", "/api", "/products", "x">>,
              <<"/api", "/api", "/orders">>,
              <<"/api", "/api">>,
              <<"/api", "/products">> },
   auths |-> { None, "Bearer valid" },
   userIds |-> { None }, forwardedFors |-> { None },
   outcomes |-> { o \in Outcomes : o.status = 200 \/ o.code = "ECONNREFUSED" },
   retries |-> { 2 }, ticks |-> TickMs,
   boot |-> "app", rounds |-> 0, starts |-> 0, signals |-> 0,
   services |-> serviceNames,
   probeOutcomes |-> {}, heaps |-> {}, listens |-> {},
   limiters |-> 0, limiterParams |-> {},
   requestIds |-> { None }, upstreamHeaders |-> { NoHeaders },
   stripped |-> {}]

\* both auth modes under every Authorization header, two requests a run
AuthLoad ==
  [requests |-> 2,
   urls |-> { <<"/api", "/api", "/orders">>, <<"/api", "/api", "/products">> },
   auths |-> AuthHeaders,
   userIds |-> ClientUserIds, forwardedFors |-> { None },
   outcomes |-> { o \in Outcomes : o.status = 200 \/ o.code = "ECONNREFUSED" },
   retries |-> { 2 }, ticks |-> TickMs,
   boot |-> "app", rounds |-> 0, starts |-> 0, signals |-> 0,
   services |-> serviceNames,
   probeOutcomes |-> {}, heaps |-> {}, listens |-> {},
   limiters |-> 0, limiterParams |-> {},
   requestIds |-> { None }, upstreamHeaders |-> { NoHeaders },
   stripped |-> {}]

\* the orders route, with every kind of Authorization header, a token that
\* is not valid yet among them
RequiredLoad ==
  [requests |-> 2,
   urls |-> { <<"/api", "/api", "/orders">> },
   auths |-> AuthHeaders \cup { "Bearer early" },
   userIds |-> { None }, forwardedFors |-> { None },
   outcomes |-> { o \in Outcomes : o.status = 200 \/ o.code = "ECONNREFUSED" },
   retries |-> { 2 }, ticks |-> TickMs,
   boot |-> "app", rounds |-> 0, starts |-> 0, signals |-> 0,
   services |-> serviceNames,
   probeOutcomes |-> {}, heaps |-> {}, listens |-> {},
   limiters |-> 0, limiterParams |-> {},
   requestIds |-> { None }, upstreamHeaders |-> { NoHeaders },
   stripped |-> {}]

\* a forwarded request beside a /ready request whose probes change the
\* health records of the registry
HealthLoad ==
  [requests |-> 2,
   urls |-> { <<"/ready">>, <<"/api", "/api", "/products">> },
   auths |-> { None }, userIds |-> { None }, forwardedFors |-> { None },
   outcomes |-> { o \in Outcomes : o.status = 200 \/ o.code = "ECONNREFUSED" },
   retries |-> { 2 }, ticks |-> TickMs,
   boot |-> "app", rounds |-> 1, starts |-> 0, signals |-> 0,
   services |-> SubSeq(serviceNames, 1, 2),
   probeOutcomes |->
     { o \in Outcomes : o.status = 200 \/ o.code = "ECONNREFUSED" },
   heaps |-> { TRUE }, listens |-> {},
   limiters |-> 0, limiterParams |-> {},
   requestIds |-> { None }, upstreamHeaders |-> { NoHeaders },
   stripped |-> {}]

\* forwarded requests and GET /services beside a /ready request whose
\* probes change the health records of the registry
FrameLoad ==
  [requests |-> 3,
   urls |-> { <<"/ready">>, <<"/services">>, <<"/api", "/api", "/products">> },
   auths |-> { None }, userIds |-> { None }, forwardedFors |-> { None },
   outcomes |-> { o \in Outcomes : o.status = 200 \/ o.code = "ECONNREFUSED" },
   retries |-> { 2 }, ticks |-> TickMs,
   boot |-> "app", rounds |-> 1, starts |-> 0, signals |-> 0,
   services |-> SubSeq(serviceNames, 1, 2),
   probeOutcomes |->
     { o \in Outcomes : o.status = 200 \/ o.code = "ECONNREFUSED" },
   heaps |-> { TRUE }, listens |-> {},
   limiters |-> 0, limiterParams |-> {},
   requestIds |-> { None }, upstreamHeaders |-> { NoHeaders },
   stripped |-> {}]

\* one client that uses up its window on the orders route, with and
\* without a token
OrderLoad ==
  [requests |-> RateMax + 1,
   urls |-> { <<"/api", "/api", "/orders">>, <<"/x">> },
   auths |-> { None, "Bearer valid" },
   userIds |-> { None }, forwardedFors |-> { None },
   outcomes |-> { o \in Outcomes : o.status = 200 \/ o.code = "ECONNREFUSED" },
   retries |-> { 2 }, ticks |-> TickMs,
   boot |-> "app", rounds |-> 0, starts |-> 0, signals |-> 0,
   services |-> serviceNames,
   probeOutcomes |-> {}, heaps |-> {}, listens |-> {},
   limiters |-> 0, limiterParams |-> {},
   requestIds |-> { None }, upstreamHeaders |-> { NoHeaders },
   stripped |-> {}]

\* a SERVICES list that lacks the services of the last two rules, and
\* paths with a rule and a service, with a rule only, and with no rule
ConfigLoad ==
  [requests |-> 2,
   urls |-> { <<"/api", "/api", "/products">>,
              <<"/api", "/api", "/orders">>,
              <<"/api", "/api", "/x">>,
              <<"/api", "/orders">> },
   auths |-> { "Bearer valid" },
   userIds |-> { None }, forwardedFors |-> { None },
   outcomes |-> { o \in Outcomes : o.status = 200 \/ o.code = "ECONNREFUSED" },
   retries |-> { 2 }, ticks |-> TickMs,
   boot |-> "app", rounds |-> 0, starts |-> 0, signals |-> 0,
   services |-> SubSeq(serviceNames, 1, 2),
   probeOutcomes |-> {}, heaps |-> {}, listens |-> {},
   limiters |-> 0, limiterParams |-> {},
   requestIds |-> { None }, upstreamHeaders |-> { NoHeaders },
   stripped |-> {}]

\* the status endpoints, asked by a client that also uses up its rate limit
StatusLoad ==
  [requests |-> RateMax + 2,
   urls |-> StatusUrls \cup { <<"/x">> },
   auths |-> { None, "Bearer invalid" },
   userIds |-> { None }, forwardedFors |-> { None },
   outcomes |-> {}, retries |-> { 2 }, ticks |-> TickMs,
   boot |-> "app", rounds |-> 1, starts |-> 0, signals |-> 0,
   services |-> SubSeq(serviceNames, 1, 1),
   probeOutcomes |-> { o \in Outcomes : o.status = 200 },
   heaps |-> BOOLEAN, listens |-> {},
   limiters |-> 0, limiterParams |-> {},
   requestIds |-> { None }, upstreamHeaders |-> { NoHeaders },
   stripped |-> {}]

\* two status requests at a time, each with its own round of probes, against
\* backends that answer 200 or cannot be reached
ProbeLoad ==
  [requests |-> 2,
   urls |-> { <<"/ready">>, <<"/status">> }, auths |-> { None },
   userIds |-> { None }, forwardedFors |-> { None },
   outcomes |-> {}, retries |-> { 2 }, ticks |-> TickMs,
   boot |-> "app", rounds |-> MaxRounds, starts |-> 0, signals |-> 0,
   services |-> SubSeq(serviceNames, 1, MaxServices),
   probeOutcomes |->
     { o \in Outcomes : o.status = 200 \/ o.code = "ECONNREFUSED" },
   heaps |-> { TRUE }, listens |-> {},
   limiters |-> 0, limiterParams |-> {},
   requestIds |-> { None }, upstreamHeaders |-> { NoHeaders },
   stripped |-> {}]

\* one status request with its round of probes, and calls for names the
\* registry lacks
LookupLoad ==
  [requests |-> 1,
   urls |-> { <<"/ready">> }, auths |-> { None },
   userIds |-> { None }, forwardedFors |-> { None },
   outcomes |-> {}, retries |-> { 2 }, ticks |-> TickMs,
   boot |-> "app", rounds |-> 1, starts |-> 0, signals |-> 0,
   services |-> SubSeq(serviceNames, 1, MaxServices),
   probeOutcomes |->
     { o \in Outcomes : o.status = 200 \/ o.code = "ECONNREFUSED" },
   heaps |-> { TRUE }, listens |-> {},
   limiters |-> 0, limiterParams |-> {},
   requestIds |-> { None }, upstreamHeaders |-> { NoHeaders },
   stripped |-> {}]

\* one round of probes against backends that answer any status, refuse
\* the connection, time out or fail otherwise
OutcomeLoad ==
  [requests |-> 1,
   urls |-> { <<"/ready">>, <<"/status">> }, auths |-> { None },
   userIds |-> { None }, forwardedFors |-> { None },
   outcomes |-> {}, retries |-> { 2 }, ticks |-> TickMs,
   boot |-> "app", rounds |-> 1, starts |-> 0, signals |-> 0,
   services |-> SubSeq(serviceNames, 1, MaxServices),
   probeOutcomes |-> Outcomes,
   heaps |-> { TRUE }, listens |-> {},
   limiters |-> 0, limiterParams |-> {},
   requestIds |-> { None }, upstreamHeaders |-> { NoHeaders },
   stripped |-> {}]

\* the registry on its own: a start and stop calls, timer rounds and the
\* rounds of /ready and /status, against backends of every health
RegistryLoad ==
  [requests |-> 1,
   urls |-> { <<"/ready">>, <<"/status">> }, auths |-> { None },
   userIds |-> { None }, forwardedFors |-> { None },
   outcomes |-> {}, retries |-> { 2 }, ticks |-> TickMs,
   boot |-> "app", rounds |-> MaxRounds, starts |-> 1, signals |-> 0,
   services |-> SubSeq(serviceNames, 1, MaxServices),
   probeOutcomes |->
     { o \in Outcomes : o.status \in {200, 404} \/ o.code = "ECONNREFUSED" },
   heaps |-> { TRUE }, listens |-> {},
   limiters |-> 0, limiterParams |-> {},
   requestIds |-> { None }, upstreamHeaders |-> { NoHeaders },
   stripped |-> {}]

\* the registry's timer: repeated start and stop calls and the rounds the
\* timers start, over one registered service that answers
TimerLoad ==
  [requests |-> 1,
   urls |-> { <<"/ready">> }, auths |-> { None },
   userIds |-> { None }, forwardedFors |-> { None },
   outcomes |-> {}, retries |-> { 2 }, ticks |-> TickMs,
   boot |-> "app", rounds |-> MaxStarts + 1, starts |-> MaxStarts,
   signals |-> 0,
   services |-> SubSeq(serviceNames, 1, 1),
   probeOutcomes |-> { o \in Outcomes : o.status = 200 },
   heaps |-> { TRUE }, listens |-> {},
   limiters |-> 0, limiterParams |-> {},
   requestIds |-> { None }, upstreamHeaders |-> { NoHeaders },
   stripped |-> {}]

\* the process from startServer to its exit, with status requests that
\* probe the one registered backend on the way
ServerLoad ==
  [requests |-> MaxRequests,
   urls |-> { <<"/ready">>, <<"/health">> },
   auths |-> { None }, userIds |-> { None }, forwardedFors |-> { None },
   outcomes |-> {}, retries |-> { 2 }, ticks |-> TickMs,
   boot |-> "server", rounds |-> MaxRounds, starts |-> 0, signals |-> 2,
   services |-> SubSeq(serviceNames, 1, 1),
   probeOutcomes |-> { o \in Outcomes : o.status = 200 },
   heaps |-> { TRUE }, listens |-> BOOLEAN,
   limiters |-> 0, limiterParams |-> {},
   requestIds |-> { None }, upstreamHeaders |-> { NoHeaders },
   stripped |-> {}]

Start(l) ==
  /\ load = l
  /\ now = 0
  /\ rateLimitStore = [k \in ClientKeys |-> NoEntry]
  /\ reqs = [r \in Reqs |-> Idle]
  /\ nreq = 0
  /\ retries \in l.retries
  /\ crashed = FALSE
  /\ window = [k \in ClientKeys |-> NoWindow]
  /\ healthStatuses = initializeServices(l.services)
  /\ healthCheckInterval = 0
  /\ intervals = <<>>
  /\ rounds = <<>>
  /\ stopped = FALSE
  /\ server = newServer(l.boot)
  /\ limiters = <<>>
  /\ stores = [id \in 1..MaxLimiters |-> EmptyStore]
  /\ lookups = <<>>

Init == Start(PipelineLoad)

InitForward == Start(ForwardLoad)

InitLimiter == Start(LimiterLoad)

InitRoutes == Start(RouteLoad)

InitHeaders == Start(HeaderLoad)

\* the rules of /api/products and of /api/orders strip the prefix or keep it
InitStrip ==
  \E S \in SUBSET { <<"/api", "/products">>, <<"/api", "/orders">> } :
    Start([StripLoad EXCEPT !.stripped = S])

InitConfig == Start(ConfigLoad)

InitAuth == Start(AuthLoad)

InitRequired == Start(RequiredLoad)

InitLimiters == Start(LimitersLoad)

InitOrder == Start(OrderLoad)

InitHealth == Start(HealthLoad)

InitStatus == Start(StatusLoad)

InitProbes == Start(ProbeLoad)

InitOutcomes == Start(OutcomeLoad)

InitLookups == Start(LookupLoad)

InitFrame == Start(FrameLoad)

InitRegistry == Start(RegistryLoad)

InitTimers == Start(TimerLoad)

InitServer == Start(ServerLoad)

\* an inbound request runs through the middleware chain
Receive(r) ==
  /\ alive
  /\ accepting
  /\ nreq < load.requests
  /\ reqs[r].pc \in {"idle", "done"}
  /\ \E url \in { u \in load.urls : ~statusRoute(u) },
        auth \in load.auths, cuid \in load.userIds,
        xff \in load.forwardedFors, rid \in load.requestIds :
       LET limited == rateLimiter([NewRequest(url, auth, cuid, xff)
                                     EXCEPT !.xRequestId = rid],
                                  rateLimitStore, now)
           k == limited.req.clientId
           w == countInWindow(window[k], now, limited.req.pc # "done")
           out == app([limited.req EXCEPT !.ordinal = w.n,
                                          !.windowEnd = w.start + WindowMs],
                      retries)
           \* a rejected promise of an async handler: express 4 leaves it
           \* unhandled (process.exit(1)), express 5 hands it to the error
           \* handler
           finals == IF out.pc # "unhandled" THEN { out }
                     ELSE { [out EXCEPT !.pc = "crashed"],
                            Respond(out, 500, "TypeError", "error.message") }
       IN /\ rateLimitStore' = limited.store
          /\ window' = [window EXCEPT ![k] = w]
          /\ \E final \in finals :
               /\ reqs' = [reqs EXCEPT ![r] = final]
               /\ crashed' = (final.pc = "crashed")
               \* server.ts: the unhandledRejection handler, process.exit(1)
               /\ server' = IF final.pc = "crashed" /\ server.phase # "app"
                            THEN exit(server, 1, "fault") ELSE server
  /\ nreq' = nreq + 1
  /\ UNCHANGED << now, retries, load, lookups, limiters, stores, registryVars >>

\* createRateLimiter(windowMs, max) is called
CreateRateLimiter ==
  /\ alive
  /\ Len(limiters) < load.limiters
  /\ \E p \in load.limiterParams :
       limiters' = Append(limiters,
                          createRateLimiter(p.windowMs, p.max, Len(limiters) + 1))
  /\ UNCHANGED << now, rateLimitStore, reqs, nreq, retries, load, lookups,
                  stores, crashed, window, registryVars, server >>

\* an inbound request on a route that has limiter number i mounted on it
LimitedRequest(i, r) ==
  /\ alive
  /\ accepting
  /\ i \in 1..Len(limiters)
  /\ nreq < load.requests
  /\ reqs[r].pc \in {"idle", "done"}
  /\ \E url \in load.urls, auth \in load.auths, cuid \in load.userIds,
        xff \in load.forwardedFors :
       LET inst == limiters[i]
           rq == [NewRequest(url, auth, cuid, xff) EXCEPT !.limiter = i]
           limited == createdLimiter(inst, rq, stores[inst.store], now)
       IN /\ stores' = [stores EXCEPT ![inst.store] = limited.store]
          /\ reqs' = [reqs EXCEPT ![r] = limited.req]
  /\ nreq' = nreq + 1
  /\ UNCHANGED << now, rateLimitStore, retries, load, lookups, limiters, crashed,
                  window, registryVars, server >>

\* an outbound axios call completes
AttemptComplete(r) ==
  /\ alive
  /\ reqs[r].pc = "attempt"
  /\ \E o \in load.outcomes, h \in load.upstreamHeaders :
       LET answered == [reqs[r] EXCEPT !.upstream =
                          IF o.type = "response" THEN h ELSE NoHeaders]
           done == attemptDone(answered, o, retries)
       IN /\ reqs' = [reqs EXCEPT ![r] = done]
          /\ healthStatuses' = registryAfterForward(healthStatuses, done)
  /\ UNCHANGED << now, rateLimitStore, nreq, retries, load, lookups, limiters,
                  stores, crashed, window,
                  healthCheckInterval, intervals, rounds, stopped, server >>

\* a backoff delay ends
BackoffElapsed(r) ==
  /\ alive
  /\ reqs[r].pc = "backoff"
  /\ reqs' = [reqs EXCEPT ![r] = nextAttempt(reqs[r])]
  /\ UNCHANGED << now, rateLimitStore, nreq, retries, load, lookups, limiters,
                  stores, crashed, window,
                  registryVars, server >>

\* the sweep timer of the rate-limit store fires
Sweep ==
  /\ alive
  /\ rateLimitStore' = sweep(rateLimitStore, now)
  /\ UNCHANGED << now, reqs, nreq, retries, load, lookups, limiters,
                  stores, crashed, window,
                  registryVars, server >>

\* time passes
Tick ==
  /\ alive
  /\ now + TickMs <= load.ticks \/ now < server.graceAt
  /\ now' = now + TickMs
  /\ UNCHANGED << rateLimitStore, reqs, nreq, retries, load, lookups, limiters,
                  stores, crashed, window,
                  registryVars, server >>

\* an inbound GET request that the status router matches
ReceiveStatus(r) ==
  /\ alive
  /\ accepting
  /\ nreq < load.requests
  /\ reqs[r].pc \in {"idle", "done"}
  /\ \E url \in load.urls, auth \in load.auths, cuid \in load.userIds,
        xff \in load.forwardedFors, heapOk \in load.heaps :
       /\ statusRoute(url)
       /\ LET out == healthCheckRouter(NewRequest(url, auth, cuid, xff),
                                       Len(rounds), heapOk)
          IN /\ reqs' = [reqs EXCEPT ![r] = [out EXCEPT !.arrival = nreq + 1]]
             /\ IF out.pc = "probing"
                THEN /\ Len(rounds) < load.rounds
                     /\ rounds' = Append(rounds, newRound(r, 0, stopped))
                ELSE rounds' = rounds
  /\ nreq' = nreq + 1
  /\ UNCHANGED << now, rateLimitStore, retries, load, lookups, limiters,
                  stores, crashed, window,
                  healthStatuses, healthCheckInterval, intervals, stopped,
                  server >>

\* the axios.get of one probe completes: checkServiceHealth stores its
\* record, and the continuation of Promise.all runs when this settles it
ProbeComplete(i, k) ==
  /\ alive
  /\ i \in 1..Len(rounds)
  /\ k \in rounds[i].probing
  /\ \E o \in load.probeOutcomes :
       LET record == checkServiceHealth(load.services[k], o)
           rd == probeDone(rounds[i], k, o)
           owner == rounds[i].owner
       IN /\ healthStatuses' = setHealthStatus(healthStatuses, record, now, i)
          /\ rounds' = [rounds EXCEPT ![i] = rd]
          /\ reqs' = IF owner \in Reqs /\ rounds[i].state = "pending"
                        /\ rd.state # "pending"
                     THEN [reqs EXCEPT ![owner] = healthReport(reqs[owner], rd)]
                     ELSE reqs
  /\ UNCHANGED << now, rateLimitStore, nreq, retries, load, lookups, limiters,
                  stores, crashed, window,
                  healthCheckInterval, intervals, stopped, server >>

\* names a caller of the registry can ask for
AskedNames == SERVICES \cup { "billing-service" }

\* a caller of the registry probes a name the registry does not hold
CheckUnregistered(name) ==
  /\ alive
  /\ Len(lookups) < MaxLookups
  /\ ~getService(name)
  /\ LET out == checkUnregistered(healthStatuses, name)
     IN /\ healthStatuses' = out.statuses
        /\ lookups' = Append(lookups, out.record)
  /\ UNCHANGED << now, rateLimitStore, reqs, nreq, retries, load, limiters,
                  stores, crashed, window,
                  healthCheckInterval, intervals, rounds, stopped, server >>

\* startHealthChecks(): a first round at once, and a new interval timer
\* whose handle replaces the one held
startHealthChecks ==
  /\ rounds' = Append(rounds, newRound("start", 0, FALSE))
  /\ intervals' = Append(intervals, TRUE)
  /\ healthCheckInterval' = Len(intervals) + 1
  /\ stopped' = FALSE
  /\ UNCHANGED healthStatuses

\* stopHealthChecks(): clearInterval of the handle held, if any
stopHealthChecks ==
  /\ intervals' = IF healthCheckInterval # 0
                  THEN [intervals EXCEPT ![healthCheckInterval] = FALSE]
                  ELSE intervals
  /\ stopped' = TRUE
  /\ UNCHANGED << healthStatuses, healthCheckInterval, rounds >>

\* a caller of the registry starts the health checks
StartHealthChecks ==
  /\ alive
  /\ Len(intervals) < load.starts
  /\ Len(rounds) < load.rounds
  /\ startHealthChecks
  /\ UNCHANGED << now, rateLimitStore, reqs, nreq, retries, load, lookups, limiters,
                  stores, crashed,
                  window, server >>

\* a caller of the registry stops the health checks
StopHealthChecks ==
  /\ alive
  /\ load.starts > 0
  /\ stopHealthChecks
  /\ UNCHANGED << now, rateLimitStore, reqs, nreq, retries, load, lookups, limiters,
                  stores, crashed,
                  window, server >>

\* the callback of interval timer t: a round whose result is dropped
HealthCheckTimer(t) ==
  /\ alive
  /\ t \in 1..Len(intervals)
  /\ intervals[t]
  /\ Len(rounds) < load.rounds
  /\ rounds' = Append(rounds, newRound("timer", t, stopped))
  /\ UNCHANGED << now, rateLimitStore, reqs, nreq, retries, load, lookups, limiters,
                  stores, crashed,
                  window, healthStatuses, healthCheckInterval, intervals,
                  stopped, server >>

\* startServer up to its await: the health checks are started
StartServer ==
  /\ server.phase = "new"
  /\ Len(rounds) < load.rounds
  /\ startHealthChecks
  /\ server' = [server EXCEPT !.phase = "starting"]
  /\ UNCHANGED << now, rateLimitStore, reqs, nreq, retries, load, lookups, limiters,
                  stores, crashed,
                  window >>

\* startServer after its await: app.listen and the signal handlers, or the
\* catch block when listen throws
Listen ==
  /\ alive
  /\ server.phase = "starting"
  /\ \E ok \in load.listens :
       server' = IF ok THEN [server EXCEPT !.phase = "listening"]
                 ELSE exit(server, 1, "startup")
  /\ UNCHANGED << now, rateLimitStore, reqs, nreq, retries, load, lookups, limiters,
                  stores, crashed,
                  window, registryVars >>

\* SIGTERM or SIGINT arrives: shutdown(signal) once startServer has
\* registered it, the end of the process before that
Signal(sig) ==
  /\ alive
  /\ server.phase # "app"
  /\ server.signals < load.signals
  /\ IF server.phase \in { "listening", "closing" }
     THEN /\ stopHealthChecks
          /\ server' = shutdown(server, now)
     ELSE /\ server' = killed(server, sig)
          /\ UNCHANGED registryVars
  /\ UNCHANGED << now, rateLimitStore, reqs, nreq, retries, load, lookups, limiters,
                  stores, crashed,
                  window >>

\* an uncaught exception or an unhandled rejection reaches the handlers
\* startServer registered: process.exit(1)
Fault ==
  /\ alive
  /\ server.phase \in { "listening", "closing" }
  /\ server' = exit(server, 1, "fault")
  /\ UNCHANGED << now, rateLimitStore, reqs, nreq, retries, load, lookups, limiters,
                  stores, crashed,
                  window, registryVars >>

\* the last connection has ended: the callback of server.close runs
ListenerClosed ==
  /\ alive
  /\ server.phase = "closing"
  /\ \A r \in Reqs : ~inFlight(reqs[r])
  /\ server' = closed(server)
  /\ UNCHANGED << now, rateLimitStore, reqs, nreq, retries, load, lookups, limiters,
                  stores, crashed,
                  window, registryVars >>

\* the force timer of shutdown fires
GraceElapsed ==
  /\ alive
  /\ server.phase = "closing"
  /\ graceOver(server, now)
  /\ server' = forceClose(server)
  /\ UNCHANGED << now, rateLimitStore, reqs, nreq, retries, load, lookups, limiters,
                  stores, crashed,
                  window, registryVars >>

Next ==
  \/ \E r \in Reqs : Receive(r)
  \/ \E r \in Reqs : AttemptComplete(r)
  \/ \E r \in Reqs : BackoffElapsed(r)
  \/ Sweep
  \/ Tick

Spec == Init /\ [][Next]_vars

SpecForward == InitForward /\ [][Next]_vars

SpecLimiter == InitLimiter /\ [][Next]_vars

SpecRoutes == InitRoutes /\ [][Next]_vars

SpecHeaders == InitHeaders /\ [][Next]_vars

SpecStrip == InitStrip /\ [][Next]_vars

SpecConfig == InitConfig /\ [][Next]_vars

SpecAuth == InitAuth /\ [][Next]_vars

SpecRequired == InitRequired /\ [][Next]_vars

SpecOrder == InitOrder /\ [][Next]_vars

\* the limiters: the global one in the app's pipeline with its sweep, and
\* those made with createRateLimiter
NextLimiters ==
  \/ \E r \in Reqs : Receive(r)
  \/ CreateRateLimiter
  \/ \E i \in 1..MaxLimiters, r \in Reqs : LimitedRequest(i, r)
  \/ Sweep
  \/ Tick

SpecLimiters == InitLimiters /\ [][NextLimiters]_vars

\* the head of the app's pipeline: status router, rate limiter and what
\* follows up to a response
NextStatus ==
  \/ \E r \in Reqs : Receive(r)
  \/ \E r \in Reqs : ReceiveStatus(r)
  \/ \E i \in 1..MaxStarts + 1, k \in 1..MaxServices : ProbeComplete(i, k)
  \/ Tick

SpecStatus == InitStatus /\ [][NextStatus]_vars

\* the forwarder beside the probes that write the health records
NextHealth ==
  \/ \E r \in Reqs : Receive(r)
  \/ \E r \in Reqs : AttemptComplete(r)
  \/ \E r \in Reqs : BackoffElapsed(r)
  \/ \E r \in Reqs : ReceiveStatus(r)
  \/ \E i \in 1..MaxStarts + 1, k \in 1..MaxServices : ProbeComplete(i, k)
  \/ Tick

SpecHealth == InitHealth /\ [][NextHealth]_vars

SpecFrame == InitFrame /\ [][NextHealth]_vars

\* checkAllServicesHealth as /ready and /status call it
NextProbes ==
  \/ \E r \in Reqs : ReceiveStatus(r)
  \/ \E i \in 1..MaxStarts + 1, k \in 1..MaxServices : ProbeComplete(i, k)
  \/ Tick

SpecProbes == InitProbes /\ [][NextProbes]_vars

SpecOutcomes == InitOutcomes /\ [][NextProbes]_vars

\* the probes of the status requests and direct calls of checkServiceHealth
NextLookups ==
  \/ \E r \in Reqs : ReceiveStatus(r)
  \/ \E i \in 1..MaxStarts + 1, k \in 1..MaxServices : ProbeComplete(i, k)
  \/ \E name \in AskedNames : CheckUnregistered(name)
  \/ Tick

SpecLookups == InitLookups /\ [][NextLookups]_vars

\* the service registry, its callers and the status requests that probe
NextRegistry ==
  \/ \E r \in Reqs : ReceiveStatus(r)
  \/ \E i \in 1..MaxStarts + 1, k \in 1..MaxServices : ProbeComplete(i, k)
  \/ StartHealthChecks
  \/ StopHealthChecks
  \/ \E t \in 1..MaxStarts : HealthCheckTimer(t)
  \/ Tick

SpecRegistry == InitRegistry /\ [][NextRegistry]_vars

SpecTimers == InitTimers /\ [][NextRegistry]_vars

\* the process of server.ts: start-up, the registry's timer, the status
\* requests in flight, the signals and the exit
NextServer ==
  \/ StartServer
  \/ Listen
  \/ \E r \in Reqs : ReceiveStatus(r)
  \/ \E i \in 1..MaxStarts + 1, k \in 1..MaxServices : ProbeComplete(i, k)
  \/ \E t \in 1..MaxStarts : HealthCheckTimer(t)
  \/ \E sig \in Signals : Signal(sig)
  \/ ListenerClosed
  \/ GraceElapsed
  \/ Fault
  \/ Tick

SpecServer == InitServer /\ [][NextServer]_vars

\* timers fire when due and time passes
SpecServerLive ==
  /\ SpecServer
  /\ WF_vars(Tick)
  /\ WF_vars(GraceElapsed)

\* ---------------------------------------------------------------- claims
\* the request carries a bearer token that verifies
verified(rq) ==
  isBearer(rq.authorization) /\ jwtVerify(bearerToken(rq.authorization)).ok

\* the address the limiter falls back to
addressOf(rq) == IF rq.xff # None THEN rq.xff ELSE RemoteAddress

\* C1: a request whose URL path falls under a route rule with
\* authRequired = true and that carries no Authorization header is answered
\* 401 "No authorization token provided" and no outbound call is issued.
C1_RequiredRouteWithoutTokenIs401 ==
  \A r \in Reqs :
    LET rq == reqs[r]
    IN (rq.pc # "idle" /\ findMapping(rq.url).authRequired
          /\ rq.authorization = None)
       => /\ rq.pc = "done"
          /\ rq.status = 401
          /\ rq.message = "No authorization token provided"
          /\ rq.attemptsMade = 0

\* C2: the x-user-id and x-user-email headers of every outbound call are
\* absent or equal to the identity verified from the token of that request.
C2_ForwardedIdentityIsVerified ==
  \A r \in Reqs :
    LET rq == reqs[r]
    IN rq.attemptsMade > 0
       => /\ rq.fwdUserId = None \/ (verified(rq) /\ rq.fwdUserId = TokenUser)
          /\ rq.fwdUserEmail = None
               \/ (verified(rq) /\ rq.fwdUserEmail = EmailOf(TokenUser))

\* C3: the limiter keys a request user:<id> only when <id> is verified from
\* the request's bearer token, and ip:<address> otherwise, so two requests
\* without a verified token from one address share one key.
C3_UserKeyOnlyWhenVerified ==
  /\ \A r \in Reqs :
       LET rq == reqs[r]
       IN rq.pc # "idle"
          => /\ rq.clientId.kind = "user"
                  => (verified(rq) /\ rq.clientId.id = TokenUser)
             /\ ~verified(rq)
                  => rq.clientId = [kind |-> "ip", id |-> addressOf(rq)]
  /\ \A r1, r2 \in Reqs :
       (/\ reqs[r1].pc # "idle" /\ reqs[r2].pc # "idle"
        /\ ~verified(reqs[r1]) /\ ~verified(reqs[r2])
        /\ addressOf(reqs[r1]) = addressOf(reqs[r2]))
       => reqs[r1].clientId = reqs[r2].clientId

\* C4: within one window of a client key the first RateMax requests are let
\* through, request RateMax + 1 is answered 429 with retryAfter the rest of
\* the window in seconds rounded up, and the first request after the window
\* has elapsed is let through with a count of 1.
C4_FixedWindowDecisions ==
  \A r \in Reqs :
    LET rq == reqs[r]
    IN rq.pc # "idle"
       => /\ rq.rlCount = rq.ordinal
          /\ rq.ordinal <= RateMax => rq.status # 429
          /\ rq.ordinal > RateMax
               => /\ rq.pc = "done" /\ rq.status = 429
                  /\ rq.attemptsMade = 0
                  /\ rq.retryAfter = Ceil(rq.windowEnd - rq.at, 1000)

\* a request was rejected in one connection while, after that window had
\* elapsed, the same client's next request started a new count
C4_Witness ==
  \E r1, r2 \in Reqs :
    /\ reqs[r1].status = 429 /\ reqs[r1].ordinal = RateMax + 1
    /\ reqs[r1].retryAfter = 1
    /\ reqs[r2].clientId = reqs[r1].clientId
    /\ reqs[r2].at > reqs[r1].windowEnd
    /\ reqs[r2].ordinal = 1 /\ reqs[r2].rlCount = 1
    /\ reqs[r2].status # 429

\* C5: whatever the interleaving of requests, outbound completions and the
\* sweep, no client key has more than RateMax requests let through in one
\* window.
C5_AtMostMaxPerWindow ==
  \A k \in ClientKeys : window[k].ok <= RateMax

\* a window that saw more requests than it let through, while another
\* request is still awaiting its backend
C5_Witness ==
  \E k \in ClientKeys :
    /\ window[k].ok = RateMax /\ window[k].n > RateMax
    /\ rateLimitStore[k] = NoEntry
    /\ \E r \in Reqs : reqs[r].pc = "attempt"

\* C6: forward stops at the first attempt that yields a response: with two
\* failed attempts and a response to the third it has made exactly three
\* attempts, and the response is what the caller gets.
C6_StopsAtFirstResponse ==
  \A r \in Reqs :
    LET rq == reqs[r]
    IN rq.responses >= 1
       => /\ rq.pc = "done"
          /\ rq.responses = 1
          /\ rq.attemptsMade = rq.failures + 1
          /\ rq.status = rq.lastOutcome.status
          /\ rq.data = UpstreamData

C6_Witness ==
  /\ retries = 3
  /\ \E r \in Reqs :
       /\ reqs[r].pc = "done" /\ reqs[r].failures = 2
       /\ reqs[r].attemptsMade = 3
       /\ reqs[r].lastOutcome.status = 200 /\ reqs[r].status = 200

\* C7: an attempt answered with a 5xx status is a failed attempt: while
\* retry budget remains the 5xx response is not returned to the caller.
C7_ServerErrorIsRetried ==
  \A r \in Reqs :
    LET rq == reqs[r]
    IN (rq.lastOutcome.type = "response" /\ rq.lastOutcome.status >= 500
          /\ rq.attempt < retries)
       => rq.pc # "done"

\* C8: when the backend answers an attempt with a 4xx status no further
\* attempt is made: a backend that answers 4xx at once is called exactly
\* once, for every retry count of 1 and above.
C8_ClientErrorIsFinal ==
  \A r \in Reqs :
    LET rq == reqs[r]
    IN (rq.lastOutcome.type = "response" /\ rq.lastOutcome.status >= 400
          /\ rq.lastOutcome.status < 500)
       => /\ rq.pc = "done"
          /\ rq.attemptsMade = rq.failures + 1
          /\ rq.failures = 0 => rq.attemptsMade = 1
          /\ rq.status = rq.lastOutcome.status

C8_Witness ==
  /\ retries = MaxRetries
  /\ \E r \in Reqs :
       /\ reqs[r].pc = "done" /\ reqs[r].lastOutcome.status = 404
       /\ reqs[r].attemptsMade = 1 /\ reqs[r].status = 404

\* C9: forward never makes more than retries attempts, and when every
\* attempt failed with a connection-level error the error thrown to the
\* caller is that of the last attempt.
C9_LastErrorSurfaces ==
  \A r \in Reqs :
    LET rq == reqs[r]
    IN /\ rq.attemptsMade <= retries
       /\ (rq.pc = "done" /\ retries >= 1 /\ rq.failures = retries)
            => rq.thrown = rq.lastOutcome

C9_Witness ==
  /\ retries = MaxRetries
  /\ \E r \in Reqs :
       /\ reqs[r].pc = "done" /\ reqs[r].failures = MaxRetries
       /\ reqs[r].attemptsMade = MaxRetries
       /\ reqs[r].thrown.code = "ETIMEDOUT"
       /\ reqs[r].status = 504

\* the status the claim assigns to a final forward outcome
statusFor(o) ==
  IF o.type = "response" THEN o.status
  ELSE IF o.code = "ECONNREFUSED" THEN 503
  ELSE IF o.code \in {"ETIMEDOUT", "ECONNABORTED"} THEN 504
  ELSE 500

\* C10: the status a forwarded request is answered with is a function of
\* the final forward outcome: 503 for connection refused, 504 for a timeout
\* or an abort, the upstream status and body for any upstream response, 500
\* for any other error.
C10_StatusFollowsOutcome ==
  \A r \in Reqs :
    LET rq == reqs[r]
    IN (rq.pc = "done" /\ rq.attemptsMade >= 1)
       => /\ rq.status = statusFor(rq.lastOutcome)
          /\ rq.status \in Statuses \cup {500, 503, 504}
          /\ rq.lastOutcome.type = "response" => rq.data = UpstreamData
          /\ rq.lastOutcome.type = "error" => rq.data = None

C10_Witness ==
  \E r \in Reqs :
    /\ reqs[r].pc = "done" /\ reqs[r].lastOutcome.code = "ECONNABORTED"
    /\ reqs[r].status = 504 /\ reqs[r].failures >= 2

\* C11: a GET request to /health, /ready, /live, /status or /services is
\* answered by the status handlers whatever the rate-limit state and the
\* credentials: the rate limiter, the auth gate, the route table and the
\* forwarder never run on it, and the step that takes or answers it leaves
\* the rate-limit store as it was.
C11_StatusEndpointsBypass ==
  /\ [](\A r \in Reqs :
          LET rq == reqs[r]
          IN (rq.pc # "idle" /\ rq.url \in StatusUrls)
             => /\ rq.stages = << "healthCheckRouter" >>
                /\ rq.clientId.kind = None /\ rq.rlCount = 0
                /\ rq.user = None /\ rq.service = None
                /\ rq.attemptsMade = 0
                /\ rq.pc \in { "probing", "done" }
                /\ rq.pc = "done" => rq.status \in { 200, 503 })
  /\ [][\A r \in Reqs :
          (reqs'[r] # reqs[r] /\ reqs'[r].url \in StatusUrls)
          => rateLimitStore' = rateLimitStore]_vars

\* a client that has used up its window and had a request refused asks
\* /ready with a token that does not verify, and is answered 200
C11_Witness ==
  \E r1, r2 \in Reqs :
    /\ reqs[r1].status = 429
    /\ rateLimitStore[reqs[r1].clientId].count = RateMax + 1
    /\ reqs[r2].url = << "/ready" >> /\ reqs[r2].arrival = RateMax + 2
    /\ reqs[r2].authorization = "Bearer invalid"
    /\ reqs[r2].pc = "done" /\ reqs[r2].status = 200

\* the backends of a round that did not answer their probe with 200
downCount(rd) ==
  Cardinality({ k \in DOMAIN rd.backends : rd.backends[k] = "down" })

C13_AllProbesJoin ==
  /\ \A i \in 1..Len(rounds) :
       LET rd == rounds[i]
           filled == { k \in DOMAIN rd.values : rd.values[k] # Pending }
       IN /\ rd.state # "rejected"
          /\ rd.probing \cup filled = 1..Len(load.services)
          /\ rd.state = "resolved" <=> rd.probing = {}
          /\ \A k \in filled : rd.values[k].service = load.services[k]
  /\ \A r \in Reqs :
       LET rq == reqs[r]
       IN (rq.url \in { << "/ready" >>, << "/status" >> } /\ rq.pc # "idle")
          => /\ rq.pc = "done" <=> rounds[rq.round].probing = {}
             /\ rq.pc = "done" => rq.total = Len(load.services)
             /\ rq.pc = "done" => rq.status \in { 200, 503 }

\* a resolved round whose second probe completed, and failed, a tick before
\* its first one
C13_Witness ==
  \E i \in 1..Len(rounds) :
    /\ rounds[i].state = "resolved"
    /\ rounds[i].values[2].status = "unhealthy"
    /\ healthStatuses[load.services[1]].round = i
    /\ healthStatuses[load.services[2]].round = i
    /\ healthStatuses[load.services[2]].lastCheck
         < healthStatuses[load.services[1]].lastCheck

\* C14: a service's stored HealthRecord is written only by the completion
\* of a probe of that service, and it is never replaced by the result of a
\* probe that started earlier than the probe whose result is stored (rounds
\* are numbered in the order they start their probes).
C14_RecordsNeverStale ==
  [][\A s \in DOMAIN healthStatuses :
       /\ healthStatuses'[s].round >= healthStatuses[s].round
       /\ healthStatuses'[s] # healthStatuses[s]
            => \E i \in 1..Len(rounds), k \in DOMAIN load.services :
                 /\ load.services[k] = s
                 /\ k \in rounds[i].probing /\ k \notin rounds'[i].probing
                 /\ healthStatuses'[s].round = i]_vars

\* the interval timers that are active
activeTimers == { t \in 1..Len(intervals) : intervals[t] }

\* C15: startHealthChecks and stopHealthChecks are idempotent: after any
\* sequence of start and stop calls at most one recurring health-check
\* timer is active, and a stop on a registry never started leaves it with
\* no timer and no handle.
C15_AtMostOneTimer ==
  /\ Cardinality(activeTimers) <= 1
  /\ intervals = <<>> => healthCheckInterval = 0

\* C16: once stopHealthChecks has returned, and until the next call of
\* startHealthChecks, no timer-driven checkAllServicesHealth round is
\* started, whatever start calls came before.
C16_NoTimerRoundAfterStop ==
  \A i \in 1..Len(rounds) : rounds[i].owner = "timer" => ~rounds[i].late

\* C17: on SIGTERM or SIGINT shutdown stops the health-check timer, then
\* closes the listener, then sets the force timer: from then on no timer is
\* active and no timer round starts, no new request is taken, requests in
\* flight may go on, and the process is force-terminated only from the
\* closing state, with the listener still open, once the grace period has
\* passed since the signal.
C17_ShutdownOrder ==
  /\ [](server.cause \in { None, "closed", "forced" } /\ server.signals > 0
          => /\ server.steps
                  = << "stopHealthChecks", "server.close", "setTimeout" >>
             /\ activeTimers = {}
             /\ \A i \in 1..Len(rounds) : ~rounds[i].late
             /\ server.graceAt = server.signalAt + GraceMs
             /\ server.cause = "forced" => now >= server.signalAt + GraceMs)
  /\ [][server.phase = "closing"
          => /\ nreq' = nreq
             /\ server'.cause = "forced"
                  => now >= server.signalAt + GraceMs]_vars

\* the force timer ended the process a grace period after the signal while
\* a request that arrived before the signal was still waiting for its probes
C17_Witness ==
  /\ server.cause = "forced" /\ server.exitCode = 1
  /\ now >= server.signalAt + GraceMs
  /\ \E r \in Reqs : reqs[r].pc = "probing"

\* C18: after a termination signal the process eventually exits: with code
\* 0 when the listener finishes closing before the force timer fires, by
\* the force timer (code 1) when the grace period elapses first; a failed
\* start-up and an uncaught exception or unhandled rejection exit with
\* code 1.
C18_ExitsAfterSignal ==
  /\ [](server.phase = "exited"
          => /\ server.cause = "closed" => server.exitCode = 0
             /\ server.cause \in { "forced", "startup", "fault" }
                  => server.exitCode = 1
             /\ server.cause \in { "closed", "forced" } => server.signals > 0)
  /\ (server.signals > 0) ~> (server.phase = "exited")

\* the listener closed within the grace period, after the request in
\* flight at the signal had been answered, and the process exited with 0
C18_Witness ==
  /\ server.phase = "exited" /\ server.cause = "closed"
  /\ server.exitCode = 0 /\ now < server.graceAt
  /\ \E r \in Reqs : reqs[r].url = << "/ready" >> /\ reqs[r].pc = "done"

\* the rule the claim assigns to a path: the first one, in declared order,
\* whose prefix the path starts with
firstRule(path) ==
  IF \A i \in 1..Len(ROUTE_MAPPINGS) : ~startsWith(path, ROUTE_MAPPINGS[i].prefix)
  THEN None
  ELSE LET i == CHOOSE i \in 1..Len(ROUTE_MAPPINGS) :
                  /\ startsWith(path, ROUTE_MAPPINGS[i].prefix)
                  /\ \A j \in 1..(i - 1) :
                       ~startsWith(path, ROUTE_MAPPINGS[j].prefix)
       IN ROUTE_MAPPINGS[i].serviceName

\* C19: route resolution is a function of the path and the static rule
\* list: the auth gate and the forwarder both resolve a path to the first
\* rule in declared order whose prefix the path starts with, or to none,
\* whatever requests were processed before.
C19_FirstMatchingRule ==
  \A r \in Reqs :
    LET rq == reqs[r]
        seen(stage) == \E i \in DOMAIN rq.stages : rq.stages[i] = stage
    IN /\ seen("conditionalAuth") => rq.authRule = firstRule(rq.path)
       /\ seen("proxyRequest") => rq.routeRule = firstRule(rq.path)
       /\ rq.attemptsMade > 0 => rq.service = firstRule(rq.path)
       /\ \A r2 \in Reqs :
            (seen("proxyRequest") /\ reqs[r2].routeRule # None
               /\ reqs[r2].path = rq.path)
            => reqs[r2].routeRule = rq.routeRule

\* the path /api/productsx resolved to the products rule twice, for a
\* request that came first and for one that came after another request
C19_Witness ==
  \E r1, r2 \in Reqs :
    /\ r1 # r2
    /\ reqs[r1].path = << "/api", "/products", "x" >>
    /\ reqs[r2].path = reqs[r1].path
    /\ reqs[r1].routeRule = "product-service"
    /\ reqs[r2].routeRule = "product-service"
    /\ reqs[r1].authRule = "product-service"
    /\ reqs[r1].pc = "done" /\ reqs[r2].pc = "attempt"

\* C20: every request whose URL path begins with a configured route prefix
\* (/api/auth, /api/products, /api/orders, /api/recommendations) is matched
\* to that prefix's rule by the pipeline mounted under /api and forwarded
\* to the rule's service: it is never answered 404 'Route not found'.
C20_PrefixedUrlIsForwarded ==
  \A r \in Reqs :
    LET rq == reqs[r]
    IN (rq.pc # "idle" /\ firstRule(rq.url) # None /\ rq.status # 429)
       => /\ rq.routeRule = firstRule(rq.url)
          /\ ~(rq.status = 404 /\ rq.error = "Route not found")

\* C21: when no rule prefix matches the path the forwarder sees, it answers
\* 404 'Route not found' and makes no outbound call; when a rule matches
\* but its service is not in the registry, it answers with another outcome
\* (503, 'not found in registry'), not 404, and makes no outbound call.
C21_ResolutionFailures ==
  \A r \in Reqs :
    LET rq == reqs[r]
        forwarder == \E i \in DOMAIN rq.stages : rq.stages[i] = "proxyRequest"
        registered == \E i \in DOMAIN load.services :
                         load.services[i] = firstRule(rq.path)
    IN forwarder =>
         /\ firstRule(rq.path) = None
              => /\ rq.pc = "done" /\ rq.status = 404
                 /\ rq.error = "Route not found"
                 /\ rq.attemptsMade = 0 /\ rq.service = None
         /\ (firstRule(rq.path) # None /\ ~registered)
              => /\ rq.pc = "done" /\ rq.status = 503 /\ rq.status # 404
                 /\ rq.error # "Route not found"
                 /\ rq.message = "not found in registry"
                 /\ rq.attemptsMade = 0 /\ rq.service = None
         /\ (firstRule(rq.path) # None /\ registered)
              => rq.attemptsMade >= 1

\* one request answered 404 for a path without rule, and one answered 503
\* for the orders rule, whose service the registry lacks, neither sent on
C21_Witness ==
  \E r1, r2 \in Reqs :
    /\ reqs[r1].path = << "/api", "/x" >> /\ reqs[r1].status = 404
    /\ reqs[r1].error = "Route not found"
    /\ reqs[r2].path = << "/api", "/orders" >> /\ reqs[r2].status = 503
    /\ reqs[r2].user = TokenUser
    /\ reqs[r1].attemptsMade = 0 /\ reqs[r2].attemptsMade = 0

\* the request reached the auth gate, in the mode its rule asks for
requiredMode(rq) ==
  /\ \E i \in DOMAIN rq.stages : rq.stages[i] = "conditionalAuth"
  /\ firstRule(rq.path) = "order-service"

optionalMode(rq) ==
  /\ \E i \in DOMAIN rq.stages : rq.stages[i] = "conditionalAuth"
  /\ firstRule(rq.path) # "order-service"

\* the calls of the forwarder on a request
forwarderCalls(rq) ==
  Cardinality({ i \in DOMAIN rq.stages : rq.stages[i] = "proxyRequest" })

\* the error strings of the auth gate's own responses
AuthErrors ==
  { "Unauthorized", "Token expired", "Invalid token", "Authentication error" }

\* C22: in required mode an expired token and a structurally invalid token
\* are both answered 401 without the next stage being called, with error
\* codes that differ; in optional mode both go on to the next stage with
\* no identity attached and no error response of the auth gate.
C22_ExpiredAndInvalidTokens ==
  /\ \A r \in Reqs :
       LET rq == reqs[r]
           bad == rq.authorization \in { "Bearer expired", "Bearer invalid" }
       IN /\ (requiredMode(rq) /\ bad)
               => /\ rq.pc = "done" /\ rq.status = 401
                  /\ rq.error = IF rq.authorization = "Bearer expired"
                                THEN "Token expired" ELSE "Invalid token"
                  /\ rq.authNext = 0 /\ forwarderCalls(rq) = 0
                  /\ rq.attemptsMade = 0 /\ rq.user = None
          /\ (optionalMode(rq) /\ bad)
               => /\ rq.authNext = 1 /\ forwarderCalls(rq) = 1
                  /\ rq.user = None
                  /\ rq.xUserId = rq.clientUserId
                  /\ rq.error \notin AuthErrors /\ rq.status # 401
  /\ \A r1, r2 \in Reqs :
       (/\ requiredMode(reqs[r1]) /\ requiredMode(reqs[r2])
        /\ reqs[r1].authorization = "Bearer expired"
        /\ reqs[r2].authorization = "Bearer invalid")
       => reqs[r1].error # reqs[r2].error

\* the orders route answered 401 twice, 'Token expired' for the expired
\* token and 'Invalid token' for the invalid one
C22_Witness ==
  \E r1, r2 \in Reqs :
    /\ requiredMode(reqs[r1]) /\ reqs[r1].authorization = "Bearer expired"
    /\ reqs[r1].status = 401 /\ reqs[r1].error = "Token expired"
    /\ requiredMode(reqs[r2]) /\ reqs[r2].authorization = "Bearer invalid"
    /\ reqs[r2].status = 401 /\ reqs[r2].error = "Invalid token"

\* C23: optional mode never fails a request: whatever the Authorization
\* header (absent, not a bearer credential, invalid token, valid token) it
\* calls the next stage exactly once and sends no response itself, and it
\* attaches an identity if and only if the token verified.
C23_OptionalNeverFails ==
  \A r \in Reqs :
    LET rq == reqs[r]
    IN optionalMode(rq)
       => /\ rq.authNext = 1 /\ forwarderCalls(rq) = 1
          /\ rq.stages = << "rateLimiter", "conditionalAuth", "proxyRequest" >>
          /\ rq.error \notin AuthErrors
          /\ rq.status \notin { 401 }
          /\ rq.user # None <=> rq.authorization = "Bearer valid"
          /\ rq.user # None => rq.user = TokenUser

\* the products route forwarded a request whose token does not verify, with
\* no identity, and one whose token verifies, with the token's identity
C23_Witness ==
  \E r1, r2 \in Reqs :
    /\ optionalMode(reqs[r1]) /\ reqs[r1].authorization = "Bearer invalid"
    /\ reqs[r1].user = None /\ reqs[r1].status = 200
    /\ optionalMode(reqs[r2]) /\ reqs[r2].authorization = "Bearer valid"
    /\ reqs[r2].user = TokenUser /\ reqs[r2].attemptsMade = 1

\* C24: health state is advisory: a request that resolves to a registered
\* service is sent to it whatever the service's stored status is when the
\* forwarder looks (healthy, unhealthy or unknown); a status other than
\* healthy gives a warning and nothing else.
C24_HealthIsAdvisory ==
  \A r \in Reqs :
    LET rq == reqs[r]
    IN (forwarderCalls(rq) = 1 /\ rq.routeRule # None
          /\ \E i \in DOMAIN load.services : load.services[i] = rq.routeRule)
       => /\ rq.healthSeen \in { "healthy", "unhealthy", "unknown" }
          /\ rq.attemptsMade >= 1
          /\ rq.service = rq.routeRule
          /\ rq.warned <=> rq.healthSeen # "healthy"
          /\ rq.message # "Service is unhealthy"

\* a request was forwarded, and answered 200 by the backend, while the
\* record of its service said unhealthy
C24_Witness ==
  \E r \in Reqs :
    /\ reqs[r].healthSeen = "unhealthy" /\ reqs[r].warned
    /\ reqs[r].service = "product-service"
    /\ reqs[r].attemptsMade = 1 /\ reqs[r].status = 200
    /\ healthStatuses["product-service"].status = "unhealthy"

\* the stages of the pipeline in the order app.ts mounts them
StageOrder == << "rateLimiter", "conditionalAuth", "proxyRequest" >>

\* C25: a request that is not a status request goes through the stages in
\* the order rate limiter, auth gate, forwarder, and a rejection is final:
\* after a 429 of the rate limiter neither the auth gate nor the forwarder
\* runs, after a 401 of the auth gate the forwarder does not run, and a
\* request that was answered is not worked on again.
C25_StagesInOrder ==
  /\ [](\A r \in Reqs :
         LET rq == reqs[r]
         IN rq.pc # "idle"
            => /\ Len(rq.stages) \in 1..Len(StageOrder)
               /\ rq.stages = SubSeq(StageOrder, 1, Len(rq.stages))
               /\ rq.status = 429
                    => /\ rq.stages = << "rateLimiter" >>
                       /\ rq.authNext = 0 /\ rq.user = None
                       /\ rq.attemptsMade = 0
               /\ rq.error \in AuthErrors
                    => /\ rq.stages = << "rateLimiter", "conditionalAuth" >>
                       /\ rq.status = 401 /\ rq.attemptsMade = 0
               /\ rq.attemptsMade > 0 => rq.stages = StageOrder)
  /\ [][\A r \in Reqs :
          (reqs[r].pc = "done" /\ reqs'[r] # reqs[r]) => nreq' = nreq + 1]_vars

\* of RateMax + 1 requests of one client, the auth gate answered 401 to
\* one and the limiter 429 to the last, which carried a valid token
C25_Witness ==
  \E r1, r2 \in Reqs :
    /\ reqs[r1].status = 429 /\ reqs[r1].stages = << "rateLimiter" >>
    /\ reqs[r1].url = << "/api", "/api", "/orders" >>
    /\ reqs[r1].authorization = "Bearer valid"
    /\ reqs[r2].status = 401
    /\ reqs[r2].stages = << "rateLimiter", "conditionalAuth" >>
    /\ nreq = RateMax + 1

\* C26: checkServiceHealth never throws or rejects: a probe answered with
\* HTTP 200 stores and returns a healthy record, every other outcome (another
\* status, a refused connection, a timeout) stores and returns an unhealthy
\* record that carries the error message.
C26_ProbeNeverThrows ==
  /\ \A i \in 1..Len(rounds) :
       LET rd == rounds[i]
       IN /\ rd.state # "rejected"
          /\ \A k \in DOMAIN rd.values :
               LET v == rd.values[k]
               IN k \notin rd.probing
                  => /\ v.service = load.services[k] /\ ~v.rejected
                     /\ v.status = (IF rd.backends[k] = "up"
                                    THEN "healthy" ELSE "unhealthy")
                     /\ v.status = "healthy" => v.error = None
                     /\ v.status = "unhealthy"
                          => v.error \in { probeMessage(o) :
                                             o \in load.probeOutcomes }
                     /\ healthStatuses[v.service].round = i
                          => /\ healthStatuses[v.service].status = v.status
                             /\ healthStatuses[v.service].error = v.error
  /\ \A s \in DOMAIN healthStatuses :
       /\ healthStatuses[s].status = "unknown" <=> healthStatuses[s].round = 0
       /\ healthStatuses[s].status = "unhealthy"
            <=> healthStatuses[s].error # None

\* one round stored a healthy record for a backend that answered 200 and an
\* unhealthy one, with the timeout's message, for a backend that timed out
C26_Witness ==
  \E i \in 1..Len(rounds) :
    /\ rounds[i].state = "resolved"
    /\ rounds[i].values[1].status = "healthy"
    /\ rounds[i].values[2].error = "ECONNABORTED"
    /\ healthStatuses[load.services[1]].status = "healthy"
    /\ healthStatuses[load.services[2]].status = "unhealthy"
    /\ healthStatuses[load.services[2]].error = "ECONNABORTED"
    /\ healthStatuses[load.services[2]].round = i

\* an entry whose window has ended
expired(entry, t) == entry # NoEntry /\ t > entry.resetTime

\* the stores of the limiters made so far
madeStores == { limiters[i].store : i \in DOMAIN limiters }

\* C27: the periodic sweep deletes every entry whose window has expired, in
\* every limiter store: when the sweep timer's callback has run, neither
\* the global store nor a store made by createRateLimiter holds an entry
\* whose window ended before.
C27_SweepDeletesExpired ==
  [][Sweep => /\ \A k \in ClientKeys : ~expired(rateLimitStore'[k], now)
              /\ \A id \in madeStores, k \in ClientKeys :
                   ~expired(stores'[id][k], now)]_vars

\* a step in which limiter i answers the request in slot r; 0 is the global
\* limiter of the app's pipeline
handledBy(i, r) == reqs'[r] # reqs[r] /\ reqs'[r].limiter = i

\* C28: a limiter made with createRateLimiter(windowMs, max) applies its own
\* window and max and keeps its own counts: it answers 429 exactly above its
\* own max, a window it opens ends windowMs after the request, and a request
\* it handles leaves the entries of the global limiter and of every other
\* made limiter unchanged, as a request of the global limiter leaves the
\* entries of every made limiter unchanged.
C28_OwnWindowOwnCounts ==
  /\ [](\A r \in Reqs :
         LET rq == reqs[r]
         IN rq.limiter # 0
            => /\ rq.limiter \in DOMAIN limiters
               /\ rq.status = 429 <=> rq.rlCount > limiters[rq.limiter].max
               /\ rq.rlRemaining
                    = Max(0, limiters[rq.limiter].max - rq.rlCount)
               /\ rq.rlCount = 1
                    => rq.rlReset = rq.at + limiters[rq.limiter].windowMs
               /\ rq.rlReset <= rq.at + limiters[rq.limiter].windowMs)
  /\ [][\A r \in Reqs :
          /\ \A i \in DOMAIN limiters :
               handledBy(i, r)
               => /\ rateLimitStore' = rateLimitStore
                  /\ \A j \in DOMAIN limiters \ {i} :
                       stores'[limiters[j].store] = stores[limiters[j].store]
          /\ handledBy(0, r) => stores' = stores]_vars

\* one client was answered 429 on its second request by a limiter made with
\* (TickMs, 1) and let through by a limiter made with (WindowMs, RateMax),
\* while the global limiter has no entry for it
C28_Witness ==
  \E r1, r2 \in Reqs, k \in ClientKeys :
    /\ Len(limiters) = 2
    /\ limiters[1] = [windowMs |-> TickMs, max |-> 1, store |-> 1]
    /\ limiters[2] = [windowMs |-> WindowMs, max |-> RateMax, store |-> 2]
    /\ reqs[r1].limiter = 1 /\ reqs[r1].status = 429
    /\ reqs[r1].clientId = k /\ reqs[r1].rlCount = 2
    /\ reqs[r2].limiter = 2 /\ reqs[r2].status # 429
    /\ reqs[r2].clientId = k /\ reqs[r2].rlCount = 1
    /\ stores[1][k].count = 2 /\ stores[2][k].count = 1
    /\ stores[1][k].resetTime # stores[2][k].resetTime
    /\ rateLimitStore[k] = NoEntry

\* a response of the upstream that the gateway relayed to the client
relayed(rq) ==
  rq.pc = "done" /\ rq.data = UpstreamData /\ rq.thrown = NoOutcome

\* C29: on a relayed response the gateway's diagnostic headers reach the
\* client with the gateway's values, whatever headers the upstream response
\* carries: X-Gateway-Service is the target service name, and X-Request-ID
\* is the inbound request's x-request-id when it has one and a generated id
\* otherwise.
C29_GatewayHeadersWin ==
  \A r \in Reqs :
    relayed(reqs[r])
    => /\ reqs[r].headers["x-gateway-service"] = reqs[r].service
       /\ reqs[r].headers["x-request-id"]
            = IF reqs[r].xRequestId # None THEN reqs[r].xRequestId
              ELSE generateRequestId

\* the change of one stored entry in one step of a limiter whose window is
\* w: none, the sweep's deletion of an expired entry, one more request
\* counted in a live window whose end stays, or a fresh window that the
\* request opens because the entry is absent or its window is over
fixedWindowStep(old, new, t, w) ==
  \/ new = old
  \/ new = NoEntry /\ expired(old, t)
  \/ /\ old # NoEntry /\ ~(t > old.resetTime)
     /\ new = [count |-> old.count + 1, resetTime |-> old.resetTime]
  \/ /\ old = NoEntry \/ t > old.resetTime
     /\ new = [count |-> 1, resetTime |-> t + w]

\* C30: the limiter is a fixed window, in the global limiter and in every
\* made one: a request opens a fresh window (count 0 before it is counted,
\* end = now + windowMs) exactly when the client's entry is absent or now is
\* past its end, a request at now = end still counts in the old window, and
\* the end of a live window is never changed by a later request, allowed or
\* rejected.
C30_FixedWindow ==
  [][\A k \in ClientKeys :
       /\ fixedWindowStep(rateLimitStore[k], rateLimitStore'[k], now, WindowMs)
       /\ \A id \in DOMAIN stores :
            \/ stores'[id][k] = stores[id][k]
            \/ \E i \in DOMAIN limiters :
                 /\ limiters[i].store = id
                 /\ stores'[id][k] # NoEntry
                 /\ fixedWindowStep(stores[id][k], stores'[id][k], now,
                                    limiters[i].windowMs)]_vars

\* a client's second request came exactly at the end of its window and was
\* counted in that window, and its third, one tick later, opened a fresh one
C30_Witness ==
  \E r1, r2 \in Reqs :
    /\ reqs[r1].limiter = 0 /\ reqs[r1].at = reqs[r1].rlReset
    /\ reqs[r1].rlCount = 2 /\ reqs[r1].rlReset = WindowMs
    /\ reqs[r2].limiter = 0 /\ reqs[r2].clientId = reqs[r1].clientId
    /\ reqs[r2].at = reqs[r1].at + TickMs
    /\ reqs[r2].rlCount = 1 /\ reqs[r2].rlReset = reqs[r2].at + WindowMs
    /\ rateLimitStore[reqs[r2].clientId]
         = [count |-> 1, resetTime |-> reqs[r2].rlReset]

\* a response to a request that the global rate limiter has counted
limitedResponse(rq) ==
  rq.pc = "done" /\ Len(rq.stages) >= 1 /\ rq.stages[1] = "rateLimiter"

\* C31: every response produced after the rate limiter ran, allowed or
\* rejected, carries X-RateLimit-Limit = max, X-RateLimit-Remaining =
\* max(0, max - count) and X-RateLimit-Reset = the end of the entry's
\* window; Remaining is never negative, and a rejection carries retryAfter =
\* ceil((resetTime - now) / 1000), from 0 to ceil(windowMs / 1000).
C31_RateLimitHeaders ==
  \A r \in Reqs :
    LET rq == reqs[r]
    IN limitedResponse(rq)
       => /\ rq.headers["x-ratelimit-limit"] = ToString(RateMax)
          /\ rq.headers["x-ratelimit-remaining"]
               = ToString(Max(0, RateMax - rq.rlCount))
          /\ rq.headers["x-ratelimit-reset"] = toISOString(rq.rlReset)
          /\ rq.rlRemaining >= 0
          /\ rq.status = 429
               => /\ rq.retryAfter = Ceil(rq.rlReset - rq.at, 1000)
                  /\ rq.retryAfter >= 0
                  /\ rq.retryAfter <= Ceil(WindowMs, 1000)

\* C32: between failed attempt k and attempt k + 1 (k from 1, k < retries)
\* forward waits 2^k * 100 ms, so that successive delays double (200, 400,
\* ...); it waits after no attempt that yields a response and not after the
\* final failed attempt. delays lists the waits of one forward so far.
C32_BackoffDoubles ==
  \A r \in Reqs :
    LET rq == reqs[r]
    IN /\ \A k \in 1..Len(rq.delays) :
            /\ rq.delays[k] = (2 ^ k) * 100
            /\ k < retries
            /\ k > 1 => rq.delays[k] = 2 * rq.delays[k - 1]
       /\ rq.pc = "backoff"
            => /\ Len(rq.delays) = rq.attempt
               /\ rq.delay = rq.delays[rq.attempt]
               /\ rq.lastOutcome.type = "error"
       /\ rq.pc = "attempt"
            => Len(rq.delays) = rq.attempt - 1 /\ rq.delay = 0
       /\ rq.pc = "done"
            => Len(rq.delays) = Max(0, rq.attemptsMade - 1) /\ rq.delay = 0

\* with MaxRetries attempts allowed, one forward waited 200 ms and 400 ms
\* and so on between its attempts, and nothing after the last, which failed
C32_Witness ==
  /\ retries = MaxRetries
  /\ \E r \in Reqs :
       /\ reqs[r].pc = "done" /\ reqs[r].failures = MaxRetries
       /\ Len(reqs[r].delays) = MaxRetries - 1
       /\ reqs[r].delays[1] = 200 /\ reqs[r].delays[2] = 400
       /\ reqs[r].lastOutcome.type = "error"

\* C33: the path a request is forwarded with is the inbound path unchanged
\* when the matched rule has stripPrefix false; when it is true it is the
\* inbound path without its leading rule prefix, removed once, with a '/'
\* put in front when what remains does not begin with '/': the target path
\* always begins with '/'.
C33_TargetPath ==
  \A r \in Reqs :
    LET rq == reqs[r]
        mapping == findMapping(rq.path)
        rest == SubSeq(rq.path, Len(mapping.prefix) + 1, Len(rq.path))
    IN rq.attemptsMade >= 1
       => /\ startsWithSlash(rq.targetPath)
          /\ ~stripPrefix(mapping) => rq.targetPath = rq.path
          /\ stripPrefix(mapping)
               => rq.targetPath = IF rest # <<>> /\ rest[1] # "x" THEN rest
                                  ELSE << "/" >> \o rest

\* with the prefix stripped for /api/products and kept for /api/orders,
\* /api/products/api/products was forwarded as /api/products and
\* /api/orders/1 unchanged
C33_Witness ==
  \E r1, r2 \in Reqs :
    /\ load.stripped = { <<"/api", "/products">> }
    /\ reqs[r1].path = <<"/api", "/products", "/api", "/products">>
    /\ reqs[r1].targetPath = <<"/api", "/products">>
    /\ reqs[r1].attemptsMade >= 1
    /\ reqs[r2].path = <<"/api", "/orders", "/1">>
    /\ reqs[r2].targetPath = reqs[r2].path
    /\ reqs[r2].attemptsMade >= 1

\* the keys of the service map
registered == { load.services[i] : i \in DOMAIN load.services }

\* C34: the health map holds exactly one record per registered service, the
\* keys of the service map, and a record that no probe has written yet has
\* status unknown; checkServiceHealth called with an unregistered name
\* returns an unknown record and leaves the maps as they are.
C34_OneRecordPerService ==
  /\ [](/\ DOMAIN healthStatuses = registered
        /\ \A s \in DOMAIN healthStatuses :
             healthStatuses[s].round = 0
             => healthStatuses[s].status = "unknown"
        /\ rounds = <<>>
             => \A s \in registered : healthStatuses[s].status = "unknown"
        /\ \A i \in DOMAIN lookups :
             /\ lookups[i].service \notin registered
             /\ lookups[i].status = "unknown"
             /\ lookups[i].error = "Service not found in registry"
             /\ ~lookups[i].rejected)
  /\ [][lookups' # lookups => healthStatuses' = healthStatuses]_vars

\* after a probe stored an unhealthy record for a registered service, a
\* call for billing-service got an unknown record back, and the health map
\* still has the registered services and no other
C34_Witness ==
  /\ Len(lookups) >= 1
  /\ lookups[Len(lookups)].service = "billing-service"
  /\ lookups[Len(lookups)].status = "unknown"
  /\ \E s \in registered : healthStatuses[s].status = "unhealthy"
  /\ "billing-service" \notin DOMAIN healthStatuses
  /\ Cardinality(DOMAIN healthStatuses) = MaxServices

\* a step in which the probe of service s in some round completes
probed(s) ==
  \E i \in DOMAIN rounds :
    \E k \in rounds[i].probing :
      load.services[k] = s /\ k \notin rounds'[i].probing

\* C35: health records are mutated only by the health prober: a step that
\* changes the record of a service is the completion of a probe of that
\* service; a proxied request, also one whose every attempt fails, the rate
\* limiter, the auth gate, the registry's read operations and GET /services
\* leave every record unchanged.
C35_OnlyProberWrites ==
  [][\A s \in DOMAIN healthStatuses :
       /\ s \in DOMAIN healthStatuses'
       /\ healthStatuses'[s] # healthStatuses[s] => probed(s)]_vars

\* a probe had stored a healthy record for product-service; then a request
\* forwarded to it failed on every attempt and was answered 503, another
\* client got the list of GET /services, and the record is still healthy
C35_Witness ==
  \E r1, r2 \in Reqs :
    /\ reqs[r1].service = "product-service" /\ reqs[r1].pc = "done"
    /\ reqs[r1].healthSeen = "healthy"
    /\ reqs[r1].failures = retries /\ reqs[r1].status = 503
    /\ reqs[r2].url = <<"/services">> /\ reqs[r2].pc = "done"
    /\ nreq = 3
    /\ healthStatuses["product-service"].status = "healthy"
    /\ healthStatuses["product-service"].round = 1

\* the request got as far as the proxy forwarder
reachedForwarder(rq) ==
  \E i \in DOMAIN rq.stages : rq.stages[i] = "proxyRequest"

\* C36: every request that reaches the proxy forwarder is answered with one
\* response and its handler ends without an uncaught error, for every
\* backend behaviour and every retry count, 0 included: such a request is
\* waiting for an attempt or a backoff, or it has been answered, and the
\* process has not died of a rejection nobody handled.
C36_ForwarderAlwaysAnswers ==
  /\ ~crashed
  /\ \A r \in Reqs :
       reachedForwarder(reqs[r])
       => /\ reqs[r].pc \in { "attempt", "backoff", "done" }
          /\ reqs[r].pc = "done"
               => reqs[r].status # 0 /\ reqs[r].error # "TypeError"

\* C37: in required mode every request ends in one of two outcomes: the
\* auth gate sent an error response and did not call the next stage, or it
\* called the next stage once, with the verified identity attached, and
\* sent no response; every failure to verify, of any kind, is answered 401.
C37_RequiredAllOrNothing ==
  \A r \in Reqs :
    LET rq == reqs[r]
        rejected == /\ rq.pc = "done" /\ rq.error \in AuthErrors
                    /\ rq.authNext = 0 /\ forwarderCalls(rq) = 0
                    /\ rq.user = None
        passed == /\ rq.authNext = 1 /\ rq.error \notin AuthErrors
                  /\ rq.user = TokenUser /\ rq.xUserId = TokenUser
                  /\ verified(rq)
    IN requiredMode(rq)
       => /\ (rejected /\ ~passed) \/ (passed /\ ~rejected)
          /\ ~verified(rq) => rejected /\ rq.status = 401

====
